---- MODULE Spec2Model ----
(***************************************************************************)
(* Model of the SSD1306 OLED driver (ssd1306.h / ssd1306.c): the packed    *)
(* video buffer, the pixel engine, the geometry and text primitives, the  *)
(* I2C framing of commands and data, and the fade and scroll effects.      *)
(*                                                                         *)
(* A drawing call is one step.  A call that writes to the I2C bus takes    *)
(* one step per bus write: the value i2c_write_blocking returns is chosen  *)
(* by the environment at every write.                                      *)
(***************************************************************************)
EXTENDS Integers, Sequences, FiniteSets, TLC

VARIABLES
    video_memory,     \* device->video_memory, index 0..OLED_VIDEO_BUFFER_SIZE-1
    power_state,      \* device->power_state
    contrast_level,   \* device->contrast_level
    inverted_colors,  \* device->inverted_colors
    pc,               \* position of the running call ("idle" between calls)
    call,             \* the running or last call: function name and arguments
    prev,             \* for oled_read_pixel, the call made just before it
    ret,              \* <<v>> the value the last call returned, <<>> if none
    queue,            \* command bytes the running call has still to transmit
    step,             \* loop counter of the running fade or scroll
    wire,             \* bytes of the bus write made by the latest step, <<>> if none
    accepted,         \* what i2c_write_blocking returned for the latest write
    log,              \* head and length of each bus write since a driver function
                      \* was last entered, in order
    trace,            \* what the call has plotted, rendered or commanded, in order
    pre,              \* the device fields when the running or last call started
    tx_failed,        \* a command transfer of the running or last call failed
    calls,            \* number of calls made so far
    origin,           \* the buffer when the execution started
    sent,             \* in a start-up run: head and length of every bus write
                      \* since the execution started, in order
    main              \* position of the application's main, when it runs

vars == <<video_memory, power_state, contrast_level, inverted_colors, pc, call,
          prev, ret, queue, step, wire, accepted, log, trace, pre, tx_failed,
          calls, origin, sent, main>>

----------------------------------------------------------------------------
(* ssd1306.h: display geometry and protocol bytes *)

OLED_SCREEN_WIDTH == 128
OLED_SCREEN_HEIGHT == 64
OLED_MEMORY_PAGES == OLED_SCREEN_HEIGHT \div 8
OLED_VIDEO_BUFFER_SIZE == OLED_SCREEN_WIDTH * OLED_MEMORY_PAGES
OLED_CMD_CONTROL_BYTE == 0
OLED_DATA_CONTROL_BYTE == 64
OLED_DEFAULT_BRIGHTNESS == 207

U8 == 0..255
BufIndex == 0..(OLED_VIDEO_BUFFER_SIZE - 1)

\* conversion of an int to uint8_t
ToU8(v) == v % 256

----------------------------------------------------------------------------
(* C bit operators on 8-bit operands *)

RECURSIVE BitAndN(_, _, _)
BitAndN(a, b, n) ==
    IF n = 0 THEN 0
    ELSE (IF a % 2 = 1 /\ b % 2 = 1 THEN 1 ELSE 0)
         + 2 * BitAndN(a \div 2, b \div 2, n - 1)

RECURSIVE BitOrN(_, _, _)
BitOrN(a, b, n) ==
    IF n = 0 THEN 0
    ELSE (IF a % 2 = 1 \/ b % 2 = 1 THEN 1 ELSE 0)
         + 2 * BitOrN(a \div 2, b \div 2, n - 1)

BitAnd(a, b) == BitAndN(a, b, 8)
BitOr(a, b) == BitOrN(a, b, 8)
\* ~b, as it is stored back into a uint8_t
BitNot(b) == 255 - b
ShiftLeft(a, n) == a * 2^n
ShiftRight(a, n) == a \div 2^n

----------------------------------------------------------------------------
(* Pixel buffer engine *)

\* uint16_t buffer_index = x_pos + (y_pos >> 3) * OLED_SCREEN_WIDTH
BufferIndex(x_pos, y_pos) == x_pos + ShiftRight(y_pos, 3) * OLED_SCREEN_WIDTH

BitPosition_msb_top(y_pos) == ShiftRight(128, BitAnd(y_pos, 7))

\* uint8_t bit_position = 1 << (y_pos & 0x07)
BitPosition(y_pos) == ShiftLeft(1, BitAnd(y_pos, 7))

OutOfRange_rows_unchecked(x_pos, y_pos) == x_pos >= OLED_SCREEN_WIDTH

OutOfRange(x_pos, y_pos) ==
    x_pos >= OLED_SCREEN_WIDTH \/ y_pos >= OLED_SCREEN_HEIGHT

oled_draw_pixel_noguard(mem, x_pos, y_pos, pixel_on) ==
    IF y_pos >= OLED_SCREEN_HEIGHT THEN mem
    ELSE LET i == BufferIndex(x_pos % OLED_SCREEN_WIDTH, y_pos)
         IN  [mem EXCEPT ![i] = IF pixel_on THEN BitOr(@, BitPosition(y_pos))
                                ELSE BitAnd(@, BitNot(BitPosition(y_pos)))]

oled_draw_pixel_setonly(mem, x_pos, y_pos, pixel_on) ==
    IF OutOfRange(x_pos, y_pos) THEN mem
    ELSE [mem EXCEPT ![BufferIndex(x_pos, y_pos)] = BitOr(@, BitPosition(y_pos))]

oled_draw_pixel(mem, x_pos, y_pos, pixel_on) ==
    IF OutOfRange(x_pos, y_pos) THEN mem
    ELSE LET i == BufferIndex(x_pos, y_pos)
         IN  [mem EXCEPT ![i] = IF pixel_on THEN BitOr(@, BitPosition(y_pos))
                                ELSE BitAnd(@, BitNot(BitPosition(y_pos)))]

oled_read_pixel(mem, x_pos, y_pos) ==
    IF OutOfRange(x_pos, y_pos) THEN FALSE
    ELSE BitAnd(mem[BufferIndex(x_pos, y_pos)], BitPosition(y_pos)) # 0

----------------------------------------------------------------------------
(* Buffer contents the calls are tried on *)

NumPatterns == 3

Pattern(k) ==
    [i \in BufIndex |->
        IF k = 0 THEN 0
        ELSE IF k = 1 THEN 255
        ELSE (i * (35 + 2 * k) + 89 * k + (i \div OLED_SCREEN_WIDTH) * 7) % 256]

Patterns == {Pattern(k) : k \in 0..(NumPatterns - 1)}

----------------------------------------------------------------------------
(* Bookkeeping shared by every call *)

Device ==
    [video_memory |-> video_memory, power_state |-> power_state,
     contrast_level |-> contrast_level, inverted_colors |-> inverted_colors]

\* entry of a driver function called by the application
Enter(fn, args) ==
    /\ pc = "idle"
    /\ call' = [fn |-> fn, args |-> args]
    /\ prev' = IF fn = "oled_read_pixel" THEN call ELSE [fn |-> "none", args |-> <<>>]
    /\ pre' = Device
    /\ calls' = calls + 1
    /\ wire' = <<>>
    /\ accepted' = 0
    /\ log' = <<>>
    /\ tx_failed' = FALSE

\* a call that does not touch the bus returns in the step that enters it
NoBus ==
    /\ pc' = "idle"
    /\ UNCHANGED <<queue, step>>

NoDraw == trace' = <<>>

\* a step that leaves main where it is and adds nothing to the start-up record
Apart == UNCHANGED <<origin, sent, main>>

ControlUnchanged == UNCHANGED <<power_state, contrast_level, inverted_colors>>

----------------------------------------------------------------------------
(* Calls of the pixel operations *)

Call_draw_pixel(x_pos, y_pos, pixel_on) ==
    /\ Enter("oled_draw_pixel", <<x_pos, y_pos, pixel_on>>)
    /\ video_memory' = oled_draw_pixel(video_memory, x_pos, y_pos, pixel_on)
    /\ ret' = <<>>
    /\ NoBus /\ NoDraw /\ ControlUnchanged

Call_read_pixel(x_pos, y_pos) ==
    /\ Enter("oled_read_pixel", <<x_pos, y_pos>>)
    /\ ret' = <<oled_read_pixel(video_memory, x_pos, y_pos)>>
    /\ UNCHANGED video_memory
    /\ NoBus /\ NoDraw /\ ControlUnchanged

----------------------------------------------------------------------------
(* Geometry primitives.  Each returns the buffer it leaves and, in trace,  *)
(* the coordinates it passed to oled_draw_pixel, in order.  A loop is its  *)
(* body applied until its exit condition holds; MaxIterations is more than *)
(* any loop over 8-bit coordinates that ends can take, and a loop still    *)
(* running after that many turns is left with done = FALSE.                *)

MaxIterations == 1024

Abs(v) == IF v < 0 THEN -v ELSE v

Plot(state, x, y, color) ==
    [state EXCEPT !.mem = oled_draw_pixel(state.mem, ToU8(x), ToU8(y), color),
                  !.trace = Append(state.trace, <<ToU8(x), ToU8(y)>>)]

LineStep_stop_short(s, p) ==
    IF s.current_x = p.x2 /\ s.current_y = p.y2 THEN [s EXCEPT !.done = TRUE]
    ELSE LET plotted == Plot(s, s.current_x, s.current_y, p.color)
             error_double == 2 * s.error_term
             step_in_x == error_double > -p.delta_y
             step_in_y == error_double < p.delta_x
         IN  [plotted EXCEPT
                 !.current_x = IF step_in_x THEN @ + p.step_x ELSE @,
                 !.current_y = IF step_in_y THEN @ + p.step_y ELSE @,
                 !.error_term = @ - (IF step_in_x THEN p.delta_y ELSE 0)
                                  + (IF step_in_y THEN p.delta_x ELSE 0)]

\* one turn of the while (true) loop of oled_draw_line_segment
LineStep(s, p) ==
    LET plotted == Plot(s, s.current_x, s.current_y, p.color)
    IN  IF s.current_x = p.x2 /\ s.current_y = p.y2
        THEN [plotted EXCEPT !.done = TRUE]
        ELSE LET error_double == 2 * s.error_term
                 step_in_x == error_double > -p.delta_y
                 step_in_y == error_double < p.delta_x
             IN  [plotted EXCEPT
                     !.current_x = IF step_in_x THEN @ + p.step_x ELSE @,
                     !.current_y = IF step_in_y THEN @ + p.step_y ELSE @,
                     !.error_term = @ - (IF step_in_x THEN p.delta_y ELSE 0)
                                      + (IF step_in_y THEN p.delta_x ELSE 0)]

\* n turns of the loop, or fewer when it ends
RECURSIVE LineLoop(_, _, _)
LineLoop(s, p, n) ==
    IF s.done \/ n = 0 THEN s
    ELSE IF n = 1 THEN LineStep(s, p)
    ELSE LineLoop(LineLoop(s, p, n \div 2), p, n - n \div 2)

oled_draw_line_segment(state, x1, y1, x2, y2, line_color) ==
    LET delta_x == Abs(x2 - x1)
        delta_y == Abs(y2 - y1)
    IN  LineLoop([mem |-> state.mem, trace |-> state.trace, done |-> FALSE,
                  current_x |-> x1, current_y |-> y1,
                  error_term |-> delta_x - delta_y],
                 [x2 |-> x2, y2 |-> y2, delta_x |-> delta_x, delta_y |-> delta_y,
                  step_x |-> IF x1 < x2 THEN 1 ELSE -1,
                  step_y |-> IF y1 < y2 THEN 1 ELSE -1,
                  color |-> line_color],
                 MaxIterations)

\* the body of the two loops of oled_draw_filled_rectangle; cell counts the
\* turns of the inner loop, row * rect_width + col
FillCell(s, p) ==
    LET row == s.cell \div p.rect_width
        col == s.cell % p.rect_width
    IN  [mem |-> oled_draw_pixel(s.mem, ToU8(p.origin_x + col),
                                 ToU8(p.origin_y + row), p.color),
         cell |-> s.cell + 1]

\* n turns of the inner loop
RECURSIVE FillCells(_, _, _)
FillCells(s, p, n) ==
    IF s.cell < 0 \/ n = 0 THEN s
    ELSE IF n = 1 THEN FillCell(s, p)
    ELSE FillCells(FillCells(s, p, n \div 2), p, n - n \div 2)

\* row runs over 0..rect_height-1 and col over 0..rect_width-1
oled_draw_filled_rectangle(state, origin_x, origin_y, rect_width, rect_height, fill_color) ==
    [mem |-> FillCells([mem |-> state.mem, cell |-> 0],
                       [origin_x |-> origin_x, origin_y |-> origin_y,
                        rect_width |-> rect_width, color |-> fill_color],
                       rect_width * rect_height).mem,
     trace |-> state.trace]

\* the four edges of oled_draw_rectangle_outline: top, bottom, left, right
oled_draw_rectangle_outline(state, origin_x, origin_y, rect_width, rect_height, border_color) ==
    LET right == ToU8(origin_x + rect_width - 1)
        bottom == ToU8(origin_y + rect_height - 1)
        top_edge == oled_draw_line_segment(state, origin_x, origin_y, right,
                                           origin_y, border_color)
        bottom_edge == oled_draw_line_segment(top_edge, origin_x, bottom, right,
                                              bottom, border_color)
        left_edge == oled_draw_line_segment(bottom_edge, origin_x, origin_y,
                                            origin_x, bottom, border_color)
        right_edge == oled_draw_line_segment(left_edge, right, origin_y, right,
                                             bottom, border_color)
    IN  [mem |-> right_edge.mem, trace |-> right_edge.trace]

\* the body of the two loops of oled_draw_filled_circle; cell counts the
\* turns of the inner loop, with y and x running over -radius..radius
DiscCell(s, p) ==
    LET y == (s.cell \div (2 * p.radius + 1)) - p.radius
        x == (s.cell % (2 * p.radius + 1)) - p.radius
    IN  [mem |-> IF x * x + y * y <= p.radius * p.radius
                 THEN oled_draw_pixel(s.mem, ToU8(p.center_x + x),
                                      ToU8(p.center_y + y), p.color)
                 ELSE s.mem,
         cell |-> s.cell + 1]

RECURSIVE DiscCells(_, _, _)
DiscCells(s, p, n) ==
    IF s.cell < 0 \/ n = 0 THEN s
    ELSE IF n = 1 THEN DiscCell(s, p)
    ELSE DiscCells(DiscCells(s, p, n \div 2), p, n - n \div 2)

oled_draw_filled_circle(state, center_x, center_y, radius, fill_color) ==
    [mem |-> DiscCells([mem |-> state.mem, cell |-> 0],
                       [center_x |-> center_x, center_y |-> center_y,
                        radius |-> radius, color |-> fill_color],
                       (2 * radius + 1) * (2 * radius + 1)).mem,
     trace |-> state.trace]

CirclePoints_seven(center_x, center_y, x, y) ==
    << <<center_x + x, center_y + y>>, <<center_x + y, center_y + x>>,
       <<center_x - x, center_y + y>>, <<center_x - y, center_y + x>>,
       <<center_x + x, center_y - y>>, <<center_x + y, center_y - x>>,
       <<center_x - x, center_y - y>> >>

\* the eight oled_draw_pixel calls of one turn of the circle loop
CirclePoints(center_x, center_y, x, y) ==
    << <<center_x + x, center_y + y>>, <<center_x + y, center_y + x>>,
       <<center_x - x, center_y + y>>, <<center_x - y, center_y + x>>,
       <<center_x + x, center_y - y>>, <<center_x + y, center_y - x>>,
       <<center_x - x, center_y - y>>, <<center_x - y, center_y - x>> >>

RECURSIVE PlotAll(_, _, _, _)
PlotAll(state, points, k, color) ==
    IF k > Len(points) THEN state
    ELSE PlotAll(Plot(state, points[k][1], points[k][2], color),
                 points, k + 1, color)

\* one turn of the while (x <= y) loop of oled_draw_circle_outline
CircleStep(s, p) ==
    IF ~(s.x <= s.y) THEN [s EXCEPT !.done = TRUE]
    ELSE LET plotted == PlotAll(s, CirclePoints(p.center_x, p.center_y, s.x, s.y),
                                1, p.color)
         IN  IF s.decision_param < 0
             THEN [plotted EXCEPT !.x = @ + 1,
                                  !.decision_param = @ + 2 * (s.x + 1) + 1]
             ELSE [plotted EXCEPT !.x = @ + 1, !.y = @ - 1,
                                  !.decision_param =
                                      @ + 2 * ((s.x + 1) - (s.y - 1)) + 1]

RECURSIVE CircleLoop(_, _, _)
CircleLoop(s, p, n) ==
    IF s.done \/ n = 0 THEN s
    ELSE IF n = 1 THEN CircleStep(s, p)
    ELSE CircleLoop(CircleLoop(s, p, n \div 2), p, n - n \div 2)

oled_draw_circle_outline(state, center_x, center_y, radius, border_color) ==
    CircleLoop([mem |-> state.mem, trace |-> state.trace, done |-> FALSE,
                x |-> 0, y |-> radius, decision_param |-> 1 - radius],
               [center_x |-> center_x, center_y |-> center_y,
                color |-> border_color],
               MaxIterations)

----------------------------------------------------------------------------
(* Text renderer.  trace keeps the oled_render_character calls made:       *)
(* <<char_x, ascii_char>>, in order.                                       *)

\* fonts.h: the glyph of a printable character, six column bytes (column 0
\* first), bit 0 on top
FONT_MATRIX_6x8(glyph) ==
    << (glyph * 29 + 41) % 256, (glyph * 29 + 124) % 256,
       (glyph * 29 + 207) % 256, (glyph * 29 + 34) % 256,
       (glyph * 29 + 117) % 256, (glyph * 29 + 200) % 256 >>

\* the body of the two loops of oled_render_character; cell counts the turns
\* of the inner loop, column * 8 + bit
RenderCell(s, p) ==
    LET column == s.cell \div 8
        bit == s.cell % 8
        pixel_state ==
            BitAnd(ShiftRight(p.character_bitmap[column + 1], bit), 1) = 1
    IN  [mem |-> oled_draw_pixel(s.mem, ToU8(p.char_x + column),
                                 ToU8(p.char_y + bit), pixel_state),
         cell |-> s.cell + 1]

\* n turns of the inner loop, or fewer when column reaches 6
RECURSIVE RenderCells(_, _, _)
RenderCells(s, p, n) ==
    IF s.cell = 48 \/ n = 0 THEN s
    ELSE IF n = 1 THEN RenderCell(s, p)
    ELSE RenderCells(RenderCells(s, p, n \div 2), p, n - n \div 2)

oled_render_character(mem, char_x, char_y, ascii_char) ==
    IF ascii_char < 32 \/ ascii_char > 126 THEN mem
    ELSE RenderCells([mem |-> mem, cell |-> 0],
                     [char_x |-> char_x, char_y |-> char_y,
                      character_bitmap |-> FONT_MATRIX_6x8(ascii_char - 32)],
                     MaxIterations).mem

TextContinues_no_clip(text_string, k, cursor_position) ==
    k <= Len(text_string)

\* while (*text_string && cursor_position < OLED_SCREEN_WIDTH), with
\* text_string the characters before the NUL and k the one pointed at
TextContinues(text_string, k, cursor_position) ==
    k <= Len(text_string) /\ cursor_position < OLED_SCREEN_WIDTH

\* one turn of the loop of oled_render_text_string
TextStep(s, p) ==
    [mem |-> oled_render_character(s.mem, s.cursor_position, p.text_y,
                                   p.text_string[s.k]),
     trace |-> Append(s.trace, <<s.cursor_position, p.text_string[s.k]>>),
     cursor_position |-> ToU8(s.cursor_position + 7),
     k |-> s.k + 1]

RECURSIVE TextLoop(_, _)
TextLoop(s, p) ==
    IF ~TextContinues(p.text_string, s.k, s.cursor_position) THEN s
    ELSE TextLoop(TextStep(s, p), p)

oled_render_text_string(state, text_x, text_y, text_string) ==
    TextLoop([mem |-> state.mem, trace |-> state.trace,
              cursor_position |-> text_x, k |-> 1],
             [text_y |-> text_y, text_string |-> text_string])

\* strlen(text_string) * 7, as uint16_t
oled_calculate_text_width(text_string) == (Len(text_string) * 7) % 65536

\* the body of the two loops over the glyph in oled_render_highlighted_text:
\* a set bit of the glyph turns its pixel off, a clear bit draws nothing
HighlightCell(s, p) ==
    LET column == s.cell \div 8
        bit == s.cell % 8
        column_pattern == p.character_bitmap[column + 1]
    IN  [mem |-> IF BitAnd(ShiftRight(column_pattern, bit), 1) = 1
                 THEN oled_draw_pixel(s.mem, ToU8(p.cursor_position + column),
                                      ToU8(p.text_y + bit), FALSE)
                 ELSE s.mem,
         cell |-> s.cell + 1]

RECURSIVE HighlightCells(_, _, _)
HighlightCells(s, p, n) ==
    IF s.cell = 48 \/ n = 0 THEN s
    ELSE IF n = 1 THEN HighlightCell(s, p)
    ELSE HighlightCells(HighlightCells(s, p, n \div 2), p, n - n \div 2)

\* one turn of the while loop of oled_render_highlighted_text
HighlightStep(s, p) ==
    LET ascii_char == p.text_string[s.k]
    IN  [mem |-> IF ascii_char >= 32 /\ ascii_char <= 126
                 THEN HighlightCells(
                          [mem |-> s.mem, cell |-> 0],
                          [cursor_position |-> s.cursor_position,
                           text_y |-> p.text_y,
                           character_bitmap |->
                               FONT_MATRIX_6x8(ascii_char - 32)],
                          48).mem
                 ELSE s.mem,
         trace |-> Append(s.trace, <<s.cursor_position, ascii_char>>),
         cursor_position |-> ToU8(s.cursor_position + 7),
         k |-> s.k + 1]

RECURSIVE HighlightLoop(_, _)
HighlightLoop(s, p) ==
    IF ~TextContinues(p.text_string, s.k, s.cursor_position) THEN s
    ELSE HighlightLoop(HighlightStep(s, p), p)

\* text_pixel_width is a uint8_t; the arguments of the rectangle are
\* converted to uint8_t as well
oled_render_highlighted_text(state, text_x, text_y, text_string) ==
    LET text_pixel_width == ToU8(oled_calculate_text_width(text_string))
        boxed == oled_draw_filled_rectangle(state, ToU8(text_x - 1),
                                            ToU8(text_y - 1),
                                            ToU8(text_pixel_width + 1), 10,
                                            TRUE)
    IN  HighlightLoop([mem |-> boxed.mem, trace |-> boxed.trace,
                       cursor_position |-> text_x, k |-> 1],
                      [text_y |-> text_y, text_string |-> text_string])

----------------------------------------------------------------------------
(* ssd1306.h: controller commands *)

CMD_DISPLAY_ACTIVATE == 175
CMD_DISPLAY_DEACTIVATE == 174
CMD_DISPLAY_NORMAL == 166
CMD_DISPLAY_INVERT == 167
CMD_DISPLAY_FROM_RAM == 164
CMD_SET_BRIGHTNESS == 129
CMD_SET_OSC_FREQUENCY == 213
CMD_SET_MULTIPLEX_RATIO == 168
CMD_SET_VERTICAL_OFFSET == 211
CMD_SET_DISPLAY_START_LINE == 64
CMD_CHARGE_PUMP_CONTROL == 141
CMD_COM_PINS_CONFIG == 218
CMD_VCOM_DETECTION_LEVEL == 219
CMD_PRECHARGE_PERIOD == 217
CMD_MEMORY_ADDRESSING_MODE == 32
CMD_COLUMN_ADDRESS_RANGE == 33
CMD_PAGE_ADDRESS_RANGE == 34
CMD_SEGMENT_REMAP_NORMAL == 160
CMD_SEGMENT_REMAP_FLIPPED == 161
CMD_COM_SCAN_ASCENDING == 192
CMD_COM_SCAN_DESCENDING == 200

----------------------------------------------------------------------------
(* I2C transport *)

\* the error code of the SDK's i2c_write_blocking
PICO_ERROR_GENERIC == -1

\* what i2c_write_blocking can return for a write of n bytes
TransferResults(n) == {n, n - 1, PICO_ERROR_GENERIC}

CommandFrame_data_control(command_byte) ==
    <<OLED_DATA_CONTROL_BYTE, command_byte>>

\* transmit_command: the frame put on the bus
CommandFrame(command_byte) == <<OLED_CMD_CONTROL_BYTE, command_byte>>

\* transmit_command: return (transfer_result == 2)
transmit_command(transfer_result) == transfer_result = 2

\* transfer_video_data: the staging buffer, control byte then the data
DataFrame(mem, data_length) ==
    [k \in 1..(data_length + 1) |->
        IF k = 1 THEN OLED_DATA_CONTROL_BYTE ELSE mem[k - 2]]

transfer_video_data_any_count(transfer_result, data_length) ==
    transfer_result > 0

\* transfer_video_data: return (transfer_result == (int)(data_length + 1))
transfer_video_data(transfer_result, data_length) ==
    transfer_result = data_length + 1

\* what the log keeps of a bus write: its first two bytes and its length
LogEntry(frame) ==
    [head |-> SubSeq(frame, 1, IF Len(frame) < 2 THEN Len(frame) ELSE 2),
     len |-> Len(frame)]

\* positions of the running call, and where each goes after its last command
AfterCommands(position) ==
    CASE position = "init" -> "idle"
      [] position = "brightness" -> "idle"
      [] position = "inversion" -> "idle"
      [] position = "power" -> "idle"
      [] position = "rotation" -> "idle"
      [] position = "refresh" -> "refresh_data"
      [] position = "fade_step" -> "fade"
      [] position = "fade_restore" -> "idle"
      [] position = "scroll_refresh" -> "scroll_data"

CommandPositions ==
    {"init", "brightness", "inversion", "power", "rotation", "refresh",
     "fade_step", "fade_restore", "scroll_refresh"}

TransmitCommand_abort ==
    /\ pc \in CommandPositions
    /\ queue # <<>>
    /\ \E transfer_result \in TransferResults(2) :
          /\ wire' = CommandFrame(Head(queue))
          /\ accepted' = transfer_result
          /\ tx_failed' = (tx_failed \/ ~transmit_command(transfer_result))
          /\ queue' = IF transmit_command(transfer_result) THEN Tail(queue)
                      ELSE <<>>
    /\ log' = Append(log, LogEntry(wire'))
    /\ pc' = IF queue' = <<>> THEN AfterCommands(pc) ELSE pc
    /\ ret' = IF queue' = <<>> /\ pc = "init" THEN <<TRUE>> ELSE <<>>
    /\ UNCHANGED <<video_memory, power_state, contrast_level, inverted_colors,
                   call, prev, step, trace, pre, calls>>

\* one transmit_command: one write of two bytes, whose result the callers drop
TransmitCommand ==
    /\ pc \in CommandPositions
    /\ queue # <<>>
    /\ \E transfer_result \in TransferResults(2) :
          /\ wire' = CommandFrame(Head(queue))
          /\ accepted' = transfer_result
          /\ tx_failed' = (tx_failed \/ ~transmit_command(transfer_result))
    /\ log' = Append(log, LogEntry(wire'))
    /\ queue' = Tail(queue)
    /\ pc' = IF Tail(queue) = <<>> THEN AfterCommands(pc) ELSE pc
    /\ ret' = IF Tail(queue) = <<>> /\ pc = "init" THEN <<TRUE>> ELSE <<>>
    /\ UNCHANGED <<video_memory, power_state, contrast_level, inverted_colors,
                   call, prev, step, trace, pre, calls>>

\* transfer_video_data of the whole buffer: malloc, one write, free
TransferVideoData ==
    /\ pc \in {"refresh_data", "scroll_data"}
    /\ \/ \E transfer_result \in TransferResults(OLED_VIDEO_BUFFER_SIZE + 1) :
             /\ wire' = DataFrame(video_memory, OLED_VIDEO_BUFFER_SIZE)
             /\ accepted' = transfer_result
             /\ log' = Append(log, LogEntry(wire'))
             /\ ret' = IF pc = "refresh_data"
                       THEN <<transfer_video_data(transfer_result,
                                                  OLED_VIDEO_BUFFER_SIZE)>>
                       ELSE <<>>
       \/ \* malloc returned NULL
          /\ wire' = <<>>
          /\ ret' = IF pc = "refresh_data" THEN <<FALSE>> ELSE <<>>
          /\ UNCHANGED <<accepted, log>>
    /\ pc' = IF pc = "refresh_data" THEN "idle" ELSE "scroll"
    /\ step' = IF pc = "scroll_data" THEN step + 1 ELSE step
    /\ UNCHANGED <<video_memory, power_state, contrast_level, inverted_colors,
                   call, prev, queue, trace, pre, tx_failed, calls>>

\* entry of a call that goes on to write to the bus
Start(position, commands) ==
    /\ pc' = position
    /\ queue' = commands
    /\ ret' = <<>>
    /\ trace' = <<>>

----------------------------------------------------------------------------
(* Controller lifecycle *)

oled_clear_screen(mem) == [i \in DOMAIN mem |-> 0]

oled_fill_screen_one_page(mem, fill_pattern) ==
    [i \in DOMAIN mem |-> IF i < OLED_SCREEN_WIDTH THEN fill_pattern ELSE mem[i]]

oled_fill_screen(mem, fill_pattern) == [i \in DOMAIN mem |-> fill_pattern]

startup_sequence_pump_late ==
    << CMD_DISPLAY_DEACTIVATE,
       CMD_SET_OSC_FREQUENCY, 128,
       CMD_SET_MULTIPLEX_RATIO, 63,
       CMD_SET_VERTICAL_OFFSET, 0,
       BitOr(CMD_SET_DISPLAY_START_LINE, 0),
       CMD_DISPLAY_ACTIVATE,
       CMD_MEMORY_ADDRESSING_MODE, 0,
       CMD_SEGMENT_REMAP_FLIPPED,
       CMD_COM_SCAN_DESCENDING,
       CMD_COM_PINS_CONFIG, 18,
       CMD_SET_BRIGHTNESS, 207,
       CMD_PRECHARGE_PERIOD, 241,
       CMD_VCOM_DETECTION_LEVEL, 64,
       CMD_DISPLAY_FROM_RAM,
       CMD_DISPLAY_NORMAL,
       CMD_CHARGE_PUMP_CONTROL, 20 >>

startup_sequence ==
    << CMD_DISPLAY_DEACTIVATE,
       CMD_SET_OSC_FREQUENCY, 128,
       CMD_SET_MULTIPLEX_RATIO, 63,
       CMD_SET_VERTICAL_OFFSET, 0,
       BitOr(CMD_SET_DISPLAY_START_LINE, 0),
       CMD_CHARGE_PUMP_CONTROL, 20,
       CMD_MEMORY_ADDRESSING_MODE, 0,
       CMD_SEGMENT_REMAP_FLIPPED,
       CMD_COM_SCAN_DESCENDING,
       CMD_COM_PINS_CONFIG, 18,
       CMD_SET_BRIGHTNESS, 207,
       CMD_PRECHARGE_PERIOD, 241,
       CMD_VCOM_DETECTION_LEVEL, 64,
       CMD_DISPLAY_FROM_RAM,
       CMD_DISPLAY_NORMAL,
       CMD_DISPLAY_ACTIVATE >>

display_window_config ==
    << CMD_COLUMN_ADDRESS_RANGE, 0, 127,
       CMD_PAGE_ADDRESS_RANGE, 0, 7 >>

Call_initialize_display ==
    /\ Enter("oled_initialize_display", <<>>)
    /\ power_state' = TRUE
    /\ contrast_level' = OLED_DEFAULT_BRIGHTNESS
    /\ inverted_colors' = FALSE
    /\ video_memory' = oled_clear_screen(video_memory)
    /\ Start("init", startup_sequence)
    /\ UNCHANGED step

Call_refresh_screen ==
    /\ Enter("oled_refresh_screen", <<>>)
    /\ Start("refresh", display_window_config)
    /\ UNCHANGED <<video_memory, power_state, contrast_level, inverted_colors,
                   step>>

Call_adjust_brightness(brightness_level) ==
    /\ Enter("oled_adjust_brightness", <<brightness_level>>)
    /\ contrast_level' = brightness_level
    /\ Start("brightness", <<CMD_SET_BRIGHTNESS, brightness_level>>)
    /\ UNCHANGED <<video_memory, power_state, inverted_colors, step>>

Call_toggle_color_inversion(enable_inversion) ==
    /\ Enter("oled_toggle_color_inversion", <<enable_inversion>>)
    /\ inverted_colors' = enable_inversion
    /\ Start("inversion", <<IF enable_inversion THEN CMD_DISPLAY_INVERT
                            ELSE CMD_DISPLAY_NORMAL>>)
    /\ UNCHANGED <<video_memory, power_state, contrast_level, step>>

Call_set_power_mode_blank(power_on) ==
    /\ Enter("oled_set_power_mode", <<power_on>>)
    /\ power_state' = power_on
    /\ video_memory' = IF power_on THEN video_memory
                       ELSE oled_clear_screen(video_memory)
    /\ Start("power", <<IF power_on THEN CMD_DISPLAY_ACTIVATE
                        ELSE CMD_DISPLAY_DEACTIVATE>>)
    /\ UNCHANGED <<contrast_level, inverted_colors, step>>

Call_set_power_mode(power_on) ==
    /\ Enter("oled_set_power_mode", <<power_on>>)
    /\ power_state' = power_on
    /\ Start("power", <<IF power_on THEN CMD_DISPLAY_ACTIVATE
                        ELSE CMD_DISPLAY_DEACTIVATE>>)
    /\ UNCHANGED <<video_memory, contrast_level, inverted_colors, step>>

Call_set_display_rotation(flip_horizontal, flip_vertical) ==
    /\ Enter("oled_set_display_rotation", <<flip_horizontal, flip_vertical>>)
    /\ Start("rotation",
             << IF flip_horizontal THEN CMD_SEGMENT_REMAP_FLIPPED
                ELSE CMD_SEGMENT_REMAP_NORMAL,
                IF flip_vertical THEN CMD_COM_SCAN_DESCENDING
                ELSE CMD_COM_SCAN_ASCENDING >>)
    /\ UNCHANGED <<video_memory, power_state, contrast_level, inverted_colors,
                   step>>

----------------------------------------------------------------------------
(* Effects *)

FADE_STEPS == 20

\* uint8_t brightness = fade_in ? (i * 255 / steps) : (255 - (i * 255 / steps))
FadeBrightness(fade_in, i) ==
    ToU8(IF fade_in THEN (i * 255) \div FADE_STEPS
         ELSE 255 - ((i * 255) \div FADE_STEPS))

Call_fade_effect(fade_in) ==
    /\ Enter("oled_fade_effect", <<fade_in>>)
    /\ pc' = "fade"
    /\ step' = 0
    /\ ret' = <<>>
    /\ trace' = <<>>
    /\ UNCHANGED <<video_memory, power_state, contrast_level, inverted_colors,
                   queue>>

\* one turn of the loop: oled_adjust_brightness(device, brightness), up to
\* its first write
FadeIteration ==
    /\ pc = "fade"
    /\ step < FADE_STEPS
    /\ contrast_level' = FadeBrightness(call.args[1], step)
    /\ queue' = <<CMD_SET_BRIGHTNESS, FadeBrightness(call.args[1], step)>>
    /\ step' = step + 1
    /\ pc' = "fade_step"
    /\ wire' = <<>>
    /\ log' = <<>>
    /\ trace' = Append(trace, FadeBrightness(call.args[1], step))
    /\ UNCHANGED <<video_memory, power_state, inverted_colors, call, prev, ret,
                   accepted, pre, tx_failed, calls>>

\* after the loop: if (fade_in) oled_adjust_brightness(device,
\* device->contrast_level); else return
FadeFinish ==
    /\ pc = "fade"
    /\ step = FADE_STEPS
    /\ IF call.args[1]
       THEN /\ queue' = <<CMD_SET_BRIGHTNESS, contrast_level>>
            /\ pc' = "fade_restore"
            /\ log' = <<>>
            /\ trace' = Append(trace, contrast_level)
       ELSE /\ queue' = <<>>
            /\ pc' = "idle"
            /\ UNCHANGED <<log, trace>>
    /\ wire' = <<>>
    /\ UNCHANGED <<video_memory, power_state, contrast_level, inverted_colors,
                   call, prev, ret, step, accepted, pre, tx_failed, calls>>

ScrollOnce_no_wrap(backup_buffer, scroll_left) ==
    [i \in DOMAIN backup_buffer |->
        LET page == i \div OLED_SCREEN_WIDTH
            col == i % OLED_SCREEN_WIDTH
            src_col == IF scroll_left THEN col + 1 ELSE col - 1
        IN  IF src_col \in 0..(OLED_SCREEN_WIDTH - 1)
            THEN backup_buffer[page * OLED_SCREEN_WIDTH + src_col]
            ELSE 0]

ScrollOnce_in_place(backup_buffer, scroll_left) ==
    [i \in DOMAIN backup_buffer |->
        LET page == i \div OLED_SCREEN_WIDTH
            col == i % OLED_SCREEN_WIDTH
        IN  IF scroll_left
            THEN backup_buffer[page * OLED_SCREEN_WIDTH
                               + (IF col = OLED_SCREEN_WIDTH - 1 THEN 1
                                  ELSE col + 1)]
            ELSE backup_buffer[page * OLED_SCREEN_WIDTH + OLED_SCREEN_WIDTH - 1]]

\* the inner loops of oled_horizontal_scroll: every byte from the backup copy
ScrollOnce(backup_buffer, scroll_left) ==
    [i \in DOMAIN backup_buffer |->
        LET page == i \div OLED_SCREEN_WIDTH
            col == i % OLED_SCREEN_WIDTH
            src_col == IF scroll_left
                       THEN (col + 1) % OLED_SCREEN_WIDTH
                       ELSE (col - 1 + OLED_SCREEN_WIDTH) % OLED_SCREEN_WIDTH
        IN  backup_buffer[page * OLED_SCREEN_WIDTH + src_col]]

Call_horizontal_scroll(scroll_left, distance_pixels) ==
    /\ Enter("oled_horizontal_scroll", <<scroll_left, distance_pixels>>)
    /\ pc' = "scroll"
    /\ step' = 0
    /\ ret' = <<>>
    /\ trace' = <<>>
    /\ UNCHANGED <<video_memory, power_state, contrast_level, inverted_colors,
                   queue>>

\* one turn of the loop, up to the first write of oled_refresh_screen
ScrollIteration ==
    /\ pc = "scroll"
    /\ step < call.args[2]
    /\ video_memory' = ScrollOnce(video_memory, call.args[1])
    /\ queue' = display_window_config
    /\ pc' = "scroll_refresh"
    /\ wire' = <<>>
    /\ log' = <<>>
    /\ UNCHANGED <<power_state, contrast_level, inverted_colors, call, prev,
                   ret, step, accepted, trace, pre, tx_failed, calls>>

ScrollReturn ==
    /\ pc = "scroll"
    /\ step >= call.args[2]
    /\ pc' = "idle"
    /\ wire' = <<>>
    /\ UNCHANGED <<video_memory, power_state, contrast_level, inverted_colors,
                   call, prev, ret, queue, step, accepted, log, trace, pre,
                   tx_failed, calls>>

----------------------------------------------------------------------------
(* Calls of the drawing operations *)

Fresh == [mem |-> video_memory, trace |-> <<>>]

Drawn(result) ==
    /\ video_memory' = result.mem
    /\ trace' = result.trace
    /\ ret' = <<>>
    /\ NoBus /\ ControlUnchanged

Call_clear_screen ==
    /\ Enter("oled_clear_screen", <<>>)
    /\ video_memory' = oled_clear_screen(video_memory)
    /\ ret' = <<>>
    /\ NoBus /\ NoDraw /\ ControlUnchanged

Call_fill_screen(fill_pattern) ==
    /\ Enter("oled_fill_screen", <<fill_pattern>>)
    /\ video_memory' = oled_fill_screen(video_memory, fill_pattern)
    /\ ret' = <<>>
    /\ NoBus /\ NoDraw /\ ControlUnchanged

Call_draw_line_segment(x1, y1, x2, y2, line_color) ==
    /\ Enter("oled_draw_line_segment", <<x1, y1, x2, y2, line_color>>)
    /\ Drawn(oled_draw_line_segment(Fresh, x1, y1, x2, y2, line_color))

Call_draw_filled_rectangle(origin_x, origin_y, rect_width, rect_height, fill_color) ==
    /\ Enter("oled_draw_filled_rectangle",
             <<origin_x, origin_y, rect_width, rect_height, fill_color>>)
    /\ Drawn(oled_draw_filled_rectangle(Fresh, origin_x, origin_y, rect_width,
                                        rect_height, fill_color))

Call_draw_circle_outline(center_x, center_y, radius, border_color) ==
    /\ Enter("oled_draw_circle_outline",
             <<center_x, center_y, radius, border_color>>)
    /\ Drawn(oled_draw_circle_outline(Fresh, center_x, center_y, radius,
                                      border_color))

Call_render_text_string(text_x, text_y, text_string) ==
    /\ Enter("oled_render_text_string", <<text_x, text_y, text_string>>)
    /\ Drawn(oled_render_text_string(Fresh, text_x, text_y, text_string))

Call_render_highlighted_text(text_x, text_y, text_string) ==
    /\ Enter("oled_render_highlighted_text", <<text_x, text_y, text_string>>)
    /\ Drawn(oled_render_highlighted_text(Fresh, text_x, text_y, text_string))

----------------------------------------------------------------------------
(* main.c: the screens of the application.  A text is the tuple of its     *)
(* character codes, named in the LET of the function that draws it.        *)

\* the decimal digits of a natural number
RECURSIVE Digits(_)
Digits(n) ==
    IF n < 10 THEN <<48 + n>> ELSE Append(Digits(n \div 10), 48 + (n % 10))

\* snprintf(buffer, 20, "%.1f<unit>", value) of a value that is not negative,
\* given in tenths: at most 19 characters are kept
FormatTenths(tenths, unit) ==
    LET whole == Digits(tenths \div 10) \o <<46, 48 + (tenths % 10)>> \o unit
    IN  SubSeq(whole, 1, IF Len(whole) < 19 THEN Len(whole) ELSE 19)

\* the text renderer on the buffer alone
Rendered(mem, text_x, text_y, text_string) ==
    oled_render_text_string([mem |-> mem, trace |-> <<>>], text_x, text_y,
                            text_string).mem

Blank(mem) == [mem |-> mem, trace |-> <<>>]

\* the drawing calls of display_welcome_screen, up to oled_refresh_screen
display_welcome_screen(mem) ==
    LET
        \* "MONITOR DE SOM"
        TEXT_MONITOR_DE_SOM ==
            <<77, 79, 78, 73, 84, 79, 82, 32, 68, 69, 32, 83, 79, 77>>
        \* "Sistema Ativo"
        TEXT_SISTEMA_ATIVO ==
            <<83, 105, 115, 116, 101, 109, 97, 32, 65, 116, 105, 118, 111>>
        \* "Aguardando Som"
        TEXT_AGUARDANDO_SOM ==
            <<65, 103, 117, 97, 114, 100, 97, 110, 100, 111, 32, 83, 111, 109>>
        cleared == oled_clear_screen(mem)
        outer == oled_draw_rectangle_outline(Blank(cleared), 0, 0, 128, 64,
                                             TRUE).mem
        inner == oled_draw_rectangle_outline(Blank(outer), 2, 2, 124, 60,
                                             TRUE).mem
        title == Rendered(inner, 15, 8, TEXT_MONITOR_DE_SOM)
        rule == oled_draw_line_segment(Blank(title), 10, 20, 118, 20, TRUE).mem
        active == Rendered(rule, 25, 28, TEXT_SISTEMA_ATIVO)
        waiting == Rendered(active, 20, 40, TEXT_AGUARDANDO_SOM)
    IN  oled_draw_filled_circle(Blank(waiting), 64, 50, 3, TRUE).mem

\* uint8_t bar_width = (uint8_t)((db_value - 30.0f) / 55.0f * 100.0f),
\* capped at 100, with db_value in tenths and at least 30 dB
BarWidth(db_tenths) ==
    LET bar_width == ((db_tenths - 300) * 10) \div 55
    IN  IF bar_width > 100 THEN 100 ELSE bar_width

\* the drawing calls of display_sound_alert, up to oled_refresh_screen
display_sound_alert(mem, db_tenths, pressure_tenths) ==
    LET
        \* "SOM ALTO!"
        TEXT_SOM_ALTO ==
            <<83, 79, 77, 32, 65, 76, 84, 79, 33>>
        \* "Nivel:"
        TEXT_NIVEL ==
            <<78, 105, 118, 101, 108, 58>>
        \* "Press:"
        TEXT_PRESS ==
            <<80, 114, 101, 115, 115, 58>>
        \* " dB"
        TEXT_DB ==
            <<32, 100, 66>>
        \* " mbar"
        TEXT_MBAR ==
            <<32, 109, 98, 97, 114>>
        cleared == oled_clear_screen(mem)
        frame == oled_draw_filled_rectangle(Blank(cleared), 0, 0, 128, 64,
                                            TRUE).mem
        hollow == oled_draw_filled_rectangle(Blank(frame), 4, 4, 120, 56,
                                             FALSE).mem
        side_a == oled_draw_line_segment(Blank(hollow), 6, 16, 11, 6, TRUE).mem
        side_b == oled_draw_line_segment(Blank(side_a), 11, 6, 16, 16, TRUE).mem
        side_c == oled_draw_line_segment(Blank(side_b), 6, 16, 16, 16, TRUE).mem
        mark == oled_render_character(side_c, 9, 11, 33)
        title == oled_render_highlighted_text(Blank(mark), 20, 6,
                                              TEXT_SOM_ALTO).mem
        db_buffer == FormatTenths(db_tenths, TEXT_DB)
        pressure_buffer == FormatTenths(pressure_tenths, TEXT_MBAR)
        level_label == Rendered(title, 6, 24, TEXT_NIVEL)
        level == Rendered(level_label, 50, 24, db_buffer)
        pressure_label == Rendered(level, 6, 34, TEXT_PRESS)
        pressure == Rendered(pressure_label, 50, 34, pressure_buffer)
        bar_width == BarWidth(db_tenths)
        bar_frame == oled_draw_rectangle_outline(Blank(pressure), 6, 45, 116, 8,
                                                 TRUE).mem
    IN  IF bar_width > 0
        THEN oled_draw_filled_rectangle(Blank(bar_frame), 7, 46,
                                        ToU8((bar_width * 114) \div 100), 6,
                                        TRUE).mem
        ELSE bar_frame

\* the drawing calls of display_error_screen, up to oled_refresh_screen
display_error_screen(mem) ==
    LET
        \* "SOM ALTO!"
        TEXT_SOM_ALTO ==
            <<83, 79, 77, 32, 65, 76, 84, 79, 33>>
        \* "Erro Pressao"
        TEXT_ERRO_PRESSAO ==
            <<69, 114, 114, 111, 32, 80, 114, 101, 115, 115, 97, 111>>
        cleared == oled_clear_screen(mem)
        border == oled_draw_rectangle_outline(Blank(cleared), 0, 0, 128, 64,
                                              TRUE).mem
        cross_a == oled_draw_line_segment(Blank(border), 6, 15, 16, 25, TRUE).mem
        cross_b == oled_draw_line_segment(Blank(cross_a), 16, 15, 6, 25, TRUE).mem
        title == Rendered(cross_b, 20, 15, TEXT_SOM_ALTO)
        message == Rendered(title, 6, 35, TEXT_ERRO_PRESSAO)
    IN  oled_draw_line_segment(Blank(message), 6, 30, 122, 30, TRUE).mem

----------------------------------------------------------------------------
(* Initial states *)

NoCall == [fn |-> "none", args |-> <<>>]

NoMain == [pc |-> "none"]

Quiet ==
    /\ origin = video_memory
    /\ sent = <<>>
    /\ main = NoMain
    /\ pc = "idle"
    /\ call = NoCall
    /\ prev = NoCall
    /\ ret = <<>>
    /\ queue = <<>>
    /\ step = 0
    /\ wire = <<>>
    /\ accepted = 0
    /\ log = <<>>
    /\ trace = <<>>
    /\ pre = Device
    /\ tx_failed = FALSE
    /\ calls = 0

\* the device fields as oled_initialize_display leaves them, and a buffer
\* that drawing calls have since filled
Initialized ==
    /\ video_memory \in Patterns
    /\ power_state = TRUE
    /\ contrast_level = OLED_DEFAULT_BRIGHTNESS
    /\ inverted_colors = FALSE

----------------------------------------------------------------------------
(* The pixel engine on its own: one oled_draw_pixel, then oled_read_pixel  *)
(* of the same coordinate, or one oled_read_pixel.                         *)

EdgeMargin == 2

\* columns at both edges of the screen, one in the middle, and off-screen ones
EdgeXs ==
    0..EdgeMargin
    \cup {OLED_SCREEN_WIDTH \div 2}
    \cup (OLED_SCREEN_WIDTH - 1 - EdgeMargin)..(OLED_SCREEN_WIDTH + EdgeMargin)
    \cup {255}

\* every row of the screen, and off-screen ones
PixelYs == 0..(OLED_SCREEN_HEIGHT + EdgeMargin) \cup {255}

InitPixel == Initialized /\ Quiet

DrawOnePixel ==
    /\ calls = 0
    /\ \E x \in EdgeXs, y \in PixelYs, on \in BOOLEAN : Call_draw_pixel(x, y, on)

ReadDrawnPixel ==
    /\ calls = 1
    /\ call.fn = "oled_draw_pixel"
    /\ Call_read_pixel(call.args[1], call.args[2])

ReadOnePixel ==
    /\ calls = 0
    /\ \E x \in EdgeXs, y \in PixelYs : Call_read_pixel(x, y)

NextPixel ==
    \/ DrawOnePixel /\ Apart
    \/ ReadDrawnPixel /\ Apart
    \/ ReadOnePixel /\ Apart

SpecPixel == InitPixel /\ [][NextPixel]_vars

InRange(x_pos, y_pos) == ~OutOfRange(x_pos, y_pos)

(* C1: right after oled_draw_pixel(x, y, on) at an in-range coordinate,    *)
(* oled_read_pixel(x, y) returns on, whatever the buffer held before.      *)
C1_ReadAfterDraw ==
    ( /\ call.fn = "oled_read_pixel"
      /\ prev.fn = "oled_draw_pixel"
      /\ call.args[1] = prev.args[1]
      /\ call.args[2] = prev.args[2]
      /\ InRange(prev.args[1], prev.args[2]) )
    => ret = <<prev.args[3]>>

\* a pixel of a byte that was all ones is drawn off and then read as off
C1_Witness ==
    /\ call.fn = "oled_read_pixel"
    /\ prev.fn = "oled_draw_pixel"
    /\ InRange(prev.args[1], prev.args[2])
    /\ prev.args[3] = FALSE
    /\ ret = <<FALSE>>
    /\ video_memory[BufferIndex(prev.args[1], prev.args[2])]
           = 255 - BitPosition(prev.args[2])

(* C2: at an out-of-range coordinate (x >= width or y >= height)           *)
(* oled_draw_pixel changes no byte of the buffer and returns nothing, and  *)
(* oled_read_pixel returns false.                                          *)
C2_OutOfRangeIgnored ==
    /\ ( call.fn = "oled_draw_pixel" /\ OutOfRange(call.args[1], call.args[2]) )
       => ( video_memory = pre.video_memory /\ ret = <<>> )
    /\ ( call.fn = "oled_read_pixel" /\ OutOfRange(call.args[1], call.args[2]) )
       => ret = <<FALSE>>

\* a pixel just right of the screen is drawn on over a cleared buffer
C2_Witness ==
    /\ call.fn = "oled_draw_pixel"
    /\ call.args[1] = OLED_SCREEN_WIDTH
    /\ call.args[2] < OLED_SCREEN_HEIGHT
    /\ call.args[3] = TRUE
    /\ video_memory = Pattern(0)

\* bit b of the byte v, bit 0 the least significant
BitOf(v, b) == (v \div 2^b) % 2 = 1

\* bit b of byte i is the pixel at column i mod width, row (i div width)*8 + b
LayoutAt(mem, i) ==
    \A b \in 0..7 :
        oled_read_pixel(mem, i % OLED_SCREEN_WIDTH,
                        (i \div OLED_SCREEN_WIDTH) * 8 + b) = BitOf(mem[i], b)

(* C12: oled_draw_pixel at an in-range (x, y) changes at most bit y mod 8  *)
(* of the byte at index x + (y div 8) * width and leaves every other bit   *)
(* of that byte and every other byte unchanged; bit b of byte i is the     *)
(* pixel at column i mod width, row (i div width) * 8 + b (for every byte  *)
(* of the buffers drawn on, and for the byte drawn in).                    *)
C12_OneBitOfOneByte ==
    /\ ( call.fn = "oled_draw_pixel" /\ InRange(call.args[1], call.args[2]) ) =>
          LET target == call.args[1]
                            + (call.args[2] \div 8) * OLED_SCREEN_WIDTH
          IN  /\ \A i \in BufIndex \ {target} :
                     video_memory[i] = pre.video_memory[i]
              /\ \A b \in (0..7) \ {call.args[2] % 8} :
                     BitOf(video_memory[target], b)
                         = BitOf(pre.video_memory[target], b)
              /\ BitOf(video_memory[target], call.args[2] % 8) = call.args[3]
              /\ LayoutAt(video_memory, target)
    /\ calls = 0 => \A i \in BufIndex : LayoutAt(video_memory, i)

\* the bottom right pixel is cleared in a mixed buffer: bit 7 of the last
\* byte flips and the rest of the byte stays
C12_Witness ==
    /\ call.fn = "oled_draw_pixel"
    /\ call.args = <<OLED_SCREEN_WIDTH - 1, OLED_SCREEN_HEIGHT - 1, FALSE>>
    /\ pre.video_memory = Pattern(2)
    /\ BitOf(pre.video_memory[OLED_VIDEO_BUFFER_SIZE - 1], 7)
    /\ video_memory[OLED_VIDEO_BUFFER_SIZE - 1]
           = pre.video_memory[OLED_VIDEO_BUFFER_SIZE - 1] - 128

----------------------------------------------------------------------------
(* Start-up: the zero-initialised static device of main, then              *)
(* oled_initialize_display, then refreshes.                                *)

InitBoot ==
    /\ video_memory = [i \in BufIndex |-> 0]
    /\ power_state = FALSE
    /\ contrast_level = 0
    /\ inverted_colors = FALSE
    /\ Quiet

BootInitialize ==
    /\ calls = 0
    /\ Call_initialize_display

MaxBootCalls == 3

BootRefresh ==
    /\ calls >= 1
    /\ calls < MaxBootCalls
    /\ Call_refresh_screen

\* the bus write a step made, if it made one, goes on record
Observed ==
    /\ sent' = IF wire' = <<>> THEN sent ELSE Append(sent, LogEntry(wire'))
    /\ UNCHANGED <<origin, main>>

NextBoot ==
    \/ BootInitialize /\ Apart
    \/ BootRefresh /\ Apart
    \/ TransmitCommand /\ Observed
    \/ TransferVideoData /\ Observed

SpecBoot == InitBoot /\ [][NextBoot]_vars

Returned(fn) == pc = "idle" /\ call.fn = fn

(* C3: oled_initialize_display returns false whenever a command transfer   *)
(* of its start-up sequence failed, and true only when all succeeded.      *)
C3_InitReportsFailure ==
    Returned("oled_initialize_display") => (ret = <<TRUE>> <=> ~tx_failed)

\* the bus writes of the start-up sequence, as the log keeps them
StartupFrames ==
    [k \in 1..Len(startup_sequence) |->
        [head |-> <<0, startup_sequence[k]>>, len |-> 2]]

(* C17: oled_initialize_display attempts every one of the 25 command       *)
(* frames of its start-up sequence exactly once and in the fixed order,    *)
(* whichever transfers fail: at every point of the call the writes made    *)
(* are the first frames of the sequence and the rest is still to come, and *)
(* when it returns all 25 were made.                                       *)
C17_EveryFrameAttemptedOnce ==
    call.fn = "oled_initialize_display" =>
        /\ Len(startup_sequence) = 25
        /\ Len(log) <= 25
        /\ log = SubSeq(StartupFrames, 1, Len(log))
        /\ queue = SubSeq(startup_sequence, Len(log) + 1, 25)
        /\ pc = "idle" => Len(log) = 25

\* the sequence ran to its end although a transfer before the last one failed
C17_Witness ==
    /\ Returned("oled_initialize_display")
    /\ tx_failed
    /\ accepted = 2
    /\ Len(log) = 25
    /\ wire = <<0, CMD_DISPLAY_ACTIVATE>>

\* the command frames [0x00, first] and [0x00, second] were written one
\* right after the other, both before write number k
PairBefore(first, second, k) ==
    \E j \in 1..(k - 2) :
        /\ sent[j] = [head |-> <<0, first>>, len |-> 2]
        /\ sent[j + 1] = [head |-> <<0, second>>, len |-> 2]

IsPowerOn(entry) == entry = [head |-> <<0, 175>>, len |-> 2]

IsDataWrite(entry) == entry.head[1] = 64

(* C11: in every execution that starts with oled_initialize_display, the   *)
(* charge-pump frames (0x8D then 0x14) are written before the power-on     *)
(* command 0xAF, the addressing-mode frames (0x20 then 0x00) are written   *)
(* before the first data frame of any refresh, and power-on is the last    *)
(* command of the initialization sequence: its 25th write and no earlier   *)
(* one, with no write of another call before it.                           *)
C11_StartupOrder ==
    /\ \A k \in DOMAIN sent :
          /\ IsPowerOn(sent[k]) => PairBefore(141, 20, k)
          /\ IsDataWrite(sent[k]) => PairBefore(32, 0, k)
    /\ \A k \in DOMAIN sent : IsPowerOn(sent[k]) <=> k = 25
    /\ call.fn = "oled_initialize_display" =>
          /\ sent = log
          /\ (pc = "idle" <=> Len(sent) = 25)
    /\ calls > 1 => Len(sent) >= 25

\* the data frame of the first refresh after the start-up sequence, some of
\* whose window commands failed
C11_Witness ==
    /\ Returned("oled_refresh_screen")
    /\ calls = 2
    /\ tx_failed
    /\ Len(sent) = 32
    /\ IsDataWrite(sent[32])
    /\ sent[32].len = OLED_VIDEO_BUFFER_SIZE + 1
    /\ IsPowerOn(sent[25])
    /\ sent[9].head = <<0, CMD_CHARGE_PUMP_CONTROL>>
    /\ sent[11].head = <<0, CMD_MEMORY_ADDRESSING_MODE>>

----------------------------------------------------------------------------
(* The driver calls that write to the bus, on an initialised device *)

MaxCalls == 2
MaxShortScroll == 2

BrightnessLevels == {0, CMD_SET_BRIGHTNESS, OLED_DEFAULT_BRIGHTNESS, 255}

ScrollDistances == 0..MaxShortScroll

InitDriver == Initialized /\ Quiet

DriverCall ==
    /\ pc = "idle"
    /\ calls < MaxCalls
    /\ \/ Call_initialize_display
       \/ Call_refresh_screen
       \/ \E level \in BrightnessLevels : Call_adjust_brightness(level)
       \/ \E on \in BOOLEAN : Call_toggle_color_inversion(on)
       \/ \E on \in BOOLEAN : Call_set_power_mode(on)
       \/ \E h \in BOOLEAN, v \in BOOLEAN : Call_set_display_rotation(h, v)
       \/ \E fade_in \in BOOLEAN : Call_fade_effect(fade_in)
       \/ \E scroll_left \in BOOLEAN, distance \in ScrollDistances :
             Call_horizontal_scroll(scroll_left, distance)

NextDriver ==
    \/ DriverCall /\ Apart
    \/ TransmitCommand /\ Apart
    \/ TransferVideoData /\ Apart
    \/ FadeIteration /\ Apart
    \/ FadeFinish /\ Apart
    \/ ScrollIteration /\ Apart
    \/ ScrollReturn /\ Apart

SpecDriver == InitDriver /\ [][NextDriver]_vars

FrameLength == (OLED_SCREEN_WIDTH * OLED_SCREEN_HEIGHT) \div 8 + 1

\* the bytes are the data control byte and then the buffer in index order
IsBufferFrame(frame) ==
    /\ Len(frame) = FrameLength
    /\ frame[1] = 64
    /\ \A i \in 0..(FrameLength - 2) : frame[i + 2] = video_memory[i]

DataWrites == {k \in DOMAIN log : log[k].head[1] = 64}

(* C4 as stated: oled_refresh_screen sends one data frame of exactly       *)
(* width*height/8 + 1 = 1025 bytes, the control byte 0x40 and then the     *)
(* whole buffer in index order, and returns false whenever the transport   *)
(* reports another count than 1025 for it; the frame is not retried.       *)
C4_RefreshSendsFrame ==
    Returned("oled_refresh_screen") =>
        /\ IsBufferFrame(wire)
        /\ Cardinality(DataWrites) = 1
        /\ (accepted # FrameLength => ret = <<FALSE>>)

(* C4 amended: when the staging buffer is allocated, oled_refresh_screen   *)
(* sends one data frame of exactly 1025 bytes, 0x40 and then the whole     *)
(* buffer in index order, once, and returns true exactly when the          *)
(* transport reports 1025; when malloc fails it sends no data frame and    *)
(* returns false.                                                          *)
C4_RefreshFrameOrNoMemory ==
    Returned("oled_refresh_screen") =>
        \/ /\ IsBufferFrame(wire)
           /\ Cardinality(DataWrites) = 1
           /\ log[Len(log)].len = FrameLength
           /\ ret = <<accepted = FrameLength>>
        \/ /\ wire = <<>>
           /\ DataWrites = {}
           /\ ret = <<FALSE>>

\* a refresh of a mixed buffer whose data frame was accepted one byte short
C4_Witness ==
    /\ Returned("oled_refresh_screen")
    /\ video_memory = Pattern(2)
    /\ Len(wire) = FrameLength
    /\ accepted = FrameLength - 1
    /\ ret = <<FALSE>>

\* the first six writes of the call are the command frames of the window
\* configuration, 0x21 0x00 0x7F 0x22 0x00 0x07, in this order
WindowConfigSent ==
    /\ Len(log) >= 6
    /\ \A k \in 1..6 :
          log[k] = [head |-> <<0, <<33, 0, 127, 34, 0, 7>>[k]>>, len |-> 2]

C5_FadeInRestoresContrast ==
    ( Returned("oled_fade_effect") /\ call.args[1] = TRUE ) =>
        /\ contrast_level = pre.contrast_level
        /\ wire = <<0, pre.contrast_level>>

(* C10: every bus write is either a command frame of exactly two bytes,    *)
(* 0x00 and the command, or a data frame, 0x40 and the complete buffer; a  *)
(* command with a parameter is two consecutive command frames, parameter   *)
(* second: oled_adjust_brightness writes [0x00,0x81] then [0x00,level].    *)
C10_Framing ==
    /\ \/ wire = <<>>
       \/ Len(wire) = 2 /\ wire[1] = 0 /\ wire[2] \in U8
       \/ IsBufferFrame(wire)
    /\ \A k \in DOMAIN log :
          \/ log[k].len = 2 /\ log[k].head[1] = 0
          \/ log[k].len = FrameLength /\ log[k].head[1] = 64
    /\ ( \/ Returned("oled_adjust_brightness")
         \/ (call.fn = "oled_fade_effect" /\ pc = "fade" /\ step > 0) )
       => log = << [head |-> <<0, 129>>, len |-> 2],
                   [head |-> <<0, contrast_level>>, len |-> 2] >>

\* a contrast command with its parameter, sent on a device whose contrast
\* an earlier call had changed
C10_Witness ==
    /\ Returned("oled_adjust_brightness")
    /\ calls = 2
    /\ pre.contrast_level = 255
    /\ wire = <<0, 207>>

ControlFunctions ==
    {"oled_set_power_mode", "oled_adjust_brightness",
     "oled_toggle_color_inversion", "oled_set_display_rotation",
     "oled_refresh_screen"}

(* C13: oled_set_power_mode, oled_adjust_brightness,                       *)
(* oled_toggle_color_inversion, oled_set_display_rotation and              *)
(* oled_refresh_screen leave every byte of the pixel buffer unchanged,     *)
(* while they run and when they return; the buffer an execution started    *)
(* with is still there after a power-off followed by a power-on.           *)
C13_ControlKeepsBuffer ==
    /\ call.fn \in ControlFunctions => video_memory = pre.video_memory
    /\ ( /\ calls = 2
         /\ call.fn = "oled_set_power_mode"
         /\ call.args = <<TRUE>>
         /\ pre.power_state = FALSE )
       => video_memory = origin

\* a mixed buffer after the display was powered off and then on again
C13_Witness ==
    /\ Returned("oled_set_power_mode")
    /\ calls = 2
    /\ call.args = <<TRUE>>
    /\ pre.power_state = FALSE
    /\ power_state = TRUE
    /\ wire = <<0, CMD_DISPLAY_ACTIVATE>>
    /\ origin = Pattern(2)
    /\ video_memory = Pattern(2)

\* the contrast values of the loop of a fade that has returned
Ramp == SubSeq(trace, 1, FADE_STEPS)

(* C19: oled_fade_effect issues exactly 20 ramp steps whose contrast       *)
(* values change monotonically; a fade-in ramp starts at 0, and a fade-out *)
(* ramp starts at the device's stored contrast level and ends at 0.        *)
C19_FadeRamp ==
    Returned("oled_fade_effect") =>
        /\ Len(trace) = FADE_STEPS + (IF call.args[1] THEN 1 ELSE 0)
        /\ \/ \A k \in 1..(FADE_STEPS - 1) : Ramp[k] <= Ramp[k + 1]
           \/ \A k \in 1..(FADE_STEPS - 1) : Ramp[k] >= Ramp[k + 1]
        /\ call.args[1] => Ramp[1] = 0
        /\ ~call.args[1] => ( Ramp[1] = pre.contrast_level
                              /\ Ramp[FADE_STEPS] = 0 )

----------------------------------------------------------------------------
(* One scroll over the whole width of the screen *)

WrapScrollCall ==
    /\ pc = "idle"
    /\ calls = 0
    /\ \E scroll_left \in BOOLEAN :
          Call_horizontal_scroll(scroll_left, OLED_SCREEN_WIDTH)

NextWrapScroll ==
    \/ WrapScrollCall /\ Apart
    \/ ScrollIteration /\ Apart
    \/ ScrollReturn /\ Apart
    \/ TransmitCommand /\ Apart
    \/ TransferVideoData /\ Apart

SpecWrapScroll == InitDriver /\ [][NextWrapScroll]_vars

(* C6: oled_horizontal_scroll by distance_pixels = 128, the screen width,  *)
(* in either direction leaves the buffer byte for byte as it was before    *)
(* the call, whether or not the refreshes succeed.                         *)
C6_FullWidthScrollRestores ==
    ( Returned("oled_horizontal_scroll") /\ call.args[2] = 128 )
    => video_memory = pre.video_memory

\* a full-width scroll of a mixed buffer, during which a transfer failed
C6_Witness ==
    /\ Returned("oled_horizontal_scroll")
    /\ call.args[2] = 128
    /\ step = 128
    /\ video_memory = Pattern(2)
    /\ ScrollOnce(video_memory, call.args[1]) # video_memory
    /\ tx_failed

----------------------------------------------------------------------------
(* A scroll in one direction and then one as far in the other direction *)

MaxRoundTrip == 3

\* short distances, and one longer than the screen is wide
RoundTripDistances == 0..MaxRoundTrip \cup {OLED_SCREEN_WIDTH + 1}

ScrollForth ==
    /\ pc = "idle"
    /\ calls = 0
    /\ \E scroll_left \in BOOLEAN, distance \in RoundTripDistances :
          Call_horizontal_scroll(scroll_left, distance)

ScrollBack ==
    /\ pc = "idle"
    /\ calls = 1
    /\ Call_horizontal_scroll(~call.args[1], call.args[2])

NextRoundTrip ==
    \/ ScrollForth /\ Apart
    \/ ScrollBack /\ Apart
    \/ ScrollIteration /\ Apart
    \/ ScrollReturn /\ Apart
    \/ TransmitCommand /\ Apart
    \/ TransferVideoData /\ Apart

SpecRoundTrip == InitDriver /\ [][NextRoundTrip]_vars

\* a step of a scroll moves every byte one column, or moves none
ScrollStepMoves ==
    IF pc = "scroll" /\ pc' = "scroll_refresh"
    THEN \A page \in 0..(OLED_MEMORY_PAGES - 1), c \in 0..(OLED_SCREEN_WIDTH - 1) :
            video_memory'[page * OLED_SCREEN_WIDTH + c]
                = video_memory[page * OLED_SCREEN_WIDTH
                               + (IF call.args[1]
                                  THEN (c + 1) % OLED_SCREEN_WIDTH
                                  ELSE (c - 1) % OLED_SCREEN_WIDTH)]
    ELSE video_memory' = video_memory

RoundTripRestores ==
    ( calls = 2 /\ Returned("oled_horizontal_scroll") ) => video_memory = origin

(* C20: one step of oled_horizontal_scroll replaces, in every page, the    *)
(* byte at column c by the pre-step byte at column (c + 1) mod width when  *)
(* scroll_left is true and at column (c - 1) mod width otherwise, and the  *)
(* rest of the call writes no byte; scrolling by d one way and then by d   *)
(* the other way restores the buffer.                                      *)
C20_ScrollStepAndRoundTrip ==
    [][ScrollStepMoves]_vars /\ []RoundTripRestores

\* a mixed buffer scrolled left by three columns, and back
C20_Witness ==
    /\ calls = 2
    /\ Returned("oled_horizontal_scroll")
    /\ call.args = <<FALSE, 3>>
    /\ step = 3
    /\ origin = Pattern(2)
    /\ pre.video_memory = ScrollOnce(ScrollOnce(ScrollOnce(origin, TRUE), TRUE), TRUE)
    /\ pre.video_memory # origin
    /\ video_memory = origin

----------------------------------------------------------------------------
(* One drawing call on an initialised device *)

MaxRadius == 6
MaxTextLen == 3

LineXs == {0, 10, OLED_SCREEN_WIDTH - 1, 200}
LineYs == {0, 10, OLED_SCREEN_HEIGHT - 1, 100}

CircleXs == {0, 3, OLED_SCREEN_WIDTH \div 2, 100, OLED_SCREEN_WIDTH - 1, 250}
CircleYs == {0, 3, OLED_SCREEN_HEIGHT \div 2, OLED_SCREEN_HEIGHT - 1, 250}
Radii == 0..MaxRadius \cup {129, 230}

TextXs == EdgeXs \cup {OLED_SCREEN_WIDTH - 8}
TextYs == {0, 28, OLED_SCREEN_HEIGHT - 4, 250}
\* 'A', '!', and a character that is not printable
TextChars == {65, 33, 10}

RECURSIVE Strings(_)
Strings(n) ==
    IF n = 0 THEN {<<>>}
    ELSE Strings(n - 1)
         \cup {Append(t, c) : t \in {u \in Strings(n - 1) : Len(u) = n - 1},
                              c \in TextChars}

Texts == Strings(MaxTextLen)

InitDraw == Initialized /\ Quiet

DrawLine ==
    /\ calls = 0
    /\ \E x1 \in LineXs, y1 \in LineYs, x2 \in LineXs, y2 \in LineYs,
          line_color \in BOOLEAN :
          Call_draw_line_segment(x1, y1, x2, y2, line_color)

DrawCircle ==
    /\ calls = 0
    /\ \E center_x \in CircleXs, center_y \in CircleYs, radius \in Radii,
          border_color \in BOOLEAN :
          Call_draw_circle_outline(center_x, center_y, radius, border_color)

DrawText ==
    /\ calls = 0
    /\ \E text_x \in TextXs, text_y \in TextYs, text_string \in Texts :
          Call_render_text_string(text_x, text_y, text_string)

NextDraw ==
    \/ DrawLine /\ Apart
    \/ DrawCircle /\ Apart
    \/ DrawText /\ Apart

SpecDraw == InitDraw /\ [][NextDraw]_vars

Screen == (0..(OLED_SCREEN_WIDTH - 1)) \X (0..(OLED_SCREEN_HEIGHT - 1))

Cleared(mem) == \A i \in BufIndex : mem[i] = 0

\* the pixels oled_read_pixel reports lit
LitPixels(mem) == {q \in Screen : oled_read_pixel(mem, q[1], q[2])}

Lit(mem, x, y) == <<x, y>> \in Screen /\ oled_read_pixel(mem, x, y)

Min(a, b) == IF a < b THEN a ELSE b
Max(a, b) == IF a < b THEN b ELSE a

LineOnClearedScreen ==
    /\ call.fn = "oled_draw_line_segment"
    /\ Cleared(pre.video_memory)
    /\ call.args[5] = TRUE
    /\ InRange(call.args[1], call.args[2])
    /\ InRange(call.args[3], call.args[4])

(* C7: on a cleared buffer, a line of color true between two in-range      *)
(* endpoints sets exactly max(|x2-x1|, |y2-y1|) + 1 pixels, both endpoints *)
(* among them and all of them inside the endpoints' bounding box.          *)
C7_LinePixelCount ==
    LineOnClearedScreen =>
        LET x1 == call.args[1]
            y1 == call.args[2]
            x2 == call.args[3]
            y2 == call.args[4]
            lit == LitPixels(video_memory)
        IN  /\ Cardinality(lit) = Max(Abs(x2 - x1), Abs(y2 - y1)) + 1
            /\ <<x1, y1>> \in lit
            /\ <<x2, y2>> \in lit
            /\ \A q \in lit : /\ Min(x1, x2) <= q[1] /\ q[1] <= Max(x1, x2)
                              /\ Min(y1, y2) <= q[2] /\ q[2] <= Max(y1, y2)

\* a line from the bottom right corner up to (10, 0) has been drawn: 118
\* columns wide, 64 rows high
C7_Witness ==
    /\ LineOnClearedScreen
    /\ call.args = <<OLED_SCREEN_WIDTH - 1, OLED_SCREEN_HEIGHT - 1, 10, 0, TRUE>>
    /\ Len(trace) = OLED_SCREEN_WIDTH - 10
    /\ ~Cleared(video_memory)

CircleOnClearedScreen ==
    /\ call.fn = "oled_draw_circle_outline"
    /\ Cleared(pre.video_memory)
    /\ call.args[4] = TRUE

(* C8 as stated: after a circle outline of color true on a cleared buffer, *)
(* for every center and radius, the point reflection through the center of *)
(* every lit pixel is lit.                                                 *)
C8_CircleSymmetric ==
    CircleOnClearedScreen =>
        \A q \in LitPixels(video_memory) :
            Lit(video_memory, 2 * call.args[1] - q[1], 2 * call.args[2] - q[2])

(* C8, amended: after a circle outline of color true on a cleared buffer,  *)
(* for every center and radius, the point reflection through the center of *)
(* every lit pixel is lit whenever that reflection is a pixel of the       *)
(* screen.                                                                 *)
C8_CircleSymmetricOnScreen ==
    CircleOnClearedScreen =>
        \A q \in LitPixels(video_memory) :
            LET rx == 2 * call.args[1] - q[1]
                ry == 2 * call.args[2] - q[2]
            IN  <<rx, ry>> \in Screen => Lit(video_memory, rx, ry)

\* a circle of radius 6 around (3, 3) is cut by the left and top edges, and
\* its pixel (9, 3) and the reflection of (3, 9) are both pixels of the screen
C8_Witness ==
    /\ CircleOnClearedScreen
    /\ call.args = <<3, 3, MaxRadius, TRUE>>
    /\ Lit(video_memory, 3 + MaxRadius, 3)
    /\ Lit(video_memory, 3, 3 + MaxRadius)
    /\ MaxRadius <= 3 => Lit(video_memory, 3, 3 - MaxRadius)

\* the columns in which the buffer has a byte that differs
ChangedColumns(before, after) ==
    {col \in 0..(OLED_SCREEN_WIDTH - 1) :
        \E page \in 0..(OLED_MEMORY_PAGES - 1) :
            before[BufferIndex(col, 8 * page)] # after[BufferIndex(col, 8 * page)]}

(* C9: oled_render_text_string clips and never wraps horizontally: no      *)
(* character is rendered with the cursor at or beyond the screen width,    *)
(* and every pixel the call changes is in a column x with                  *)
(* text_x <= x < width.                                                    *)
C9_TextClips ==
    call.fn = "oled_render_text_string" =>
        /\ \A k \in DOMAIN trace : trace[k][1] < OLED_SCREEN_WIDTH
        /\ \A x \in ChangedColumns(pre.video_memory, video_memory) :
               call.args[1] <= x /\ x < OLED_SCREEN_WIDTH

\* three printable characters from column 120: the first is drawn whole, the
\* second is cut at the right edge and the third is not rendered
C9_Witness ==
    /\ call.fn = "oled_render_text_string"
    /\ call.args[1] = OLED_SCREEN_WIDTH - 8
    /\ Len(call.args[3]) = 3
    /\ \A k \in 1..3 : call.args[3][k] >= 32
    /\ Len(trace) = 2
    /\ trace[2][1] = OLED_SCREEN_WIDTH - 1
    /\ OLED_SCREEN_WIDTH - 1 \in ChangedColumns(pre.video_memory, video_memory)

----------------------------------------------------------------------------
(* One call that paints an area of the buffer, on an initialised device *)

PaintClear ==
    /\ calls = 0
    /\ Call_clear_screen

PaintFill ==
    /\ calls = 0
    /\ \E fill_pattern \in U8 : Call_fill_screen(fill_pattern)

\* oled_initialize_display again, for the buffer reset it does
PaintInitialize ==
    /\ calls = 0
    /\ Call_initialize_display

PaintRectangle ==
    /\ calls = 0
    /\ \E origin_x \in {0, OLED_SCREEN_WIDTH - 8, 200, 255},
          origin_y \in {0, OLED_SCREEN_HEIGHT - 4, 250, 255},
          rect_width \in {0, 1, 30, 100}, rect_height \in {0, 1, 10},
          fill_color \in BOOLEAN :
          Call_draw_filled_rectangle(origin_x, origin_y, rect_width,
                                     rect_height, fill_color)

\* the length of a text whose width in pixels does not fit 8 bits
LongTextLen == 37

PaintHighlighted ==
    /\ calls = 0
    /\ \E text_x \in {0, 1, 20, OLED_SCREEN_WIDTH - 1, 250},
          text_y \in {0, 6, OLED_SCREEN_HEIGHT - 8, 250},
          text_string \in Texts \cup {[k \in 1..LongTextLen |-> 65]} :
          Call_render_highlighted_text(text_x, text_y, text_string)

NextPaint ==
    \/ PaintClear /\ Apart
    \/ PaintHighlighted /\ Apart
    \/ PaintFill /\ Apart
    \/ PaintInitialize /\ Apart
    \/ PaintRectangle /\ Apart
    \/ TransmitCommand /\ Apart

SpecPaint == InitDraw /\ [][NextPaint]_vars

\* oled_read_pixel returns false at every coordinate, on the screen and off
AllPixelsOff(mem) == \A x \in U8, y \in U8 : oled_read_pixel(mem, x, y) = FALSE

(* C15: oled_fill_screen(p) leaves every byte of the buffer equal to p,    *)
(* for every byte p; oled_clear_screen and the buffer reset of             *)
(* oled_initialize_display leave every byte 0, and after them, as after    *)
(* oled_fill_screen(0), oled_read_pixel returns false at every coordinate. *)
C15_FillSetsEveryByte ==
    /\ call.fn = "oled_fill_screen" =>
          /\ \A i \in BufIndex : video_memory[i] = call.args[1]
          /\ call.args[1] = 0 => AllPixelsOff(video_memory)
    /\ call.fn = "oled_clear_screen" =>
          /\ \A i \in BufIndex : video_memory[i] = 0
          /\ AllPixelsOff(video_memory)
    /\ call.fn = "oled_initialize_display" =>
          /\ \A i \in BufIndex : video_memory[i] = 0
          /\ pc = "idle" => AllPixelsOff(video_memory)

\* a mixed buffer filled with 0xA5
C15_Witness ==
    /\ call.fn = "oled_fill_screen"
    /\ call.args = <<165>>
    /\ pre.video_memory = Pattern(2)
    /\ video_memory[0] = 165
    /\ video_memory[OLED_VIDEO_BUFFER_SIZE - 1] = 165
    /\ oled_read_pixel(video_memory, 0, 0)
    /\ ~oled_read_pixel(video_memory, 0, 1)

\* the pixels of the screen that oled_read_pixel reports differently
ChangedPixels(before, after) ==
    LET changed_bytes == {i \in BufIndex : before[i] # after[i]}
        candidates ==
            UNION {{<<i % OLED_SCREEN_WIDTH, (i \div OLED_SCREEN_WIDTH) * 8 + b>> :
                        b \in 0..7} : i \in changed_bytes}
    IN  {q \in candidates : oled_read_pixel(before, q[1], q[2])
                                # oled_read_pixel(after, q[1], q[2])}

(* C18: oled_draw_filled_rectangle(ox, oy, w, h, c) changes only pixels    *)
(* (x, y) of the screen with ox <= x < ox + w and oy <= y < oy + h, for    *)
(* all 8-bit arguments: an offset past the screen is ignored and never     *)
(* wrapped around to the opposite edge.                                    *)
C18_RectangleStaysInside ==
    call.fn = "oled_draw_filled_rectangle" =>
        \A q \in ChangedPixels(pre.video_memory, video_memory) :
            /\ call.args[1] <= q[1] /\ q[1] < call.args[1] + call.args[3]
            /\ call.args[2] <= q[2] /\ q[2] < call.args[2] + call.args[4]

\* (x, y) is a set bit of a glyph that oled_render_highlighted_text renders
Foreground(x, y, text_x, text_y, text_string) ==
    \E k \in 1..Len(text_string) :
        LET cursor_position == text_x + 7 * (k - 1)
            ascii_char == text_string[k]
        IN  /\ cursor_position < OLED_SCREEN_WIDTH
            /\ ascii_char >= 32 /\ ascii_char <= 126
            /\ x - cursor_position \in 0..5
            /\ y - text_y \in 0..7
            /\ BitAnd(ShiftRight(FONT_MATRIX_6x8(ascii_char - 32)
                                     [x - cursor_position + 1],
                                 y - text_y), 1) = 1

(* C14: after oled_render_highlighted_text(text_x, text_y, s), for every   *)
(* string s, every pixel of the screen inside the box of width             *)
(* 7 * len(s) + 1 and height 10 with top-left corner                       *)
(* (text_x - 1, text_y - 1) is on, except exactly the foreground bits of   *)
(* the rendered glyphs, which are off.                                     *)
C14_HighlightedBox ==
    call.fn = "oled_render_highlighted_text" =>
        LET text_x == call.args[1]
            text_y == call.args[2]
            text_string == call.args[3]
        IN  \A x \in {v \in 0..(OLED_SCREEN_WIDTH - 1) :
                          /\ text_x - 1 <= v
                          /\ v < text_x - 1 + 7 * Len(text_string) + 1},
               y \in {v \in 0..(OLED_SCREEN_HEIGHT - 1) :
                          text_y - 1 <= v /\ v < text_y - 1 + 10} :
                oled_read_pixel(video_memory, x, y)
                    <=> ~Foreground(x, y, text_x, text_y, text_string)

----------------------------------------------------------------------------
(* main.c: the application.  main holds the position of main(): pc is the  *)
(* statement it runs next, screen and at the display function it is in and *)
(* how far, i the counter of the blink loop, peak, db, ok and pressure the *)
(* last readings, peaks the number of peaks sampled, since the number of   *)
(* driver calls made when the last peak was sampled, and shown the display *)
(* functions that returned since then.                                     *)

MaxPeaks == 2

\* mic_adc_read_peak_mv: millivolts, at both sides of the alert level
Peaks == {2800, 2801}

\* mv_to_db_scaled at the peaks above, in tenths of a dB:
\* 30 + 55 * log10(mv / 3300 * 9 + 1)
mv_to_db_scaled(mv_value) ==
    CASE mv_value = 2800 -> 815
      [] mv_value = 2801 -> 815

IsLoud_at_threshold(peak) == peak >= 2800

\* if (peak > 2800.0f)
IsLoud(peak) == peak > 2800

\* the static oled before main runs, and main at its first statement
InitMain ==
    /\ video_memory = [i \in BufIndex |-> 0]
    /\ power_state = FALSE
    /\ contrast_level = 0
    /\ inverted_colors = FALSE
    /\ origin = video_memory
    /\ sent = <<>>
    /\ main = [pc |-> "init", screen |-> "none", at |-> "none", i |-> 0,
               peak |-> 0, db |-> 0, ok |-> FALSE, pressure |-> 0,
               peaks |-> 0, since |-> 0, shown |-> <<>>]
    /\ pc = "idle"
    /\ call = NoCall
    /\ prev = NoCall
    /\ ret = <<>>
    /\ queue = <<>>
    /\ step = 0
    /\ wire = <<>>
    /\ accepted = 0
    /\ log = <<>>
    /\ trace = <<>>
    /\ pre = Device
    /\ tx_failed = FALSE
    /\ calls = 0

\* main is about to run the statement at label, every call before it returned
At(label) == main.pc = label /\ main.screen = "none" /\ pc = "idle"

Goto(label) == main' = [main EXCEPT !.pc = label]

\* a statement of main that calls nothing of the driver
DriverIdle ==
    UNCHANGED <<video_memory, power_state, contrast_level, inverted_colors, pc,
                call, prev, ret, queue, step, wire, accepted, log, trace, pre,
                tx_failed, calls>>

\* entry of a display function; main goes on at label after when it returns
CallDisplay(screen, after) ==
    /\ main' = [main EXCEPT !.screen = screen, !.at = "draw", !.pc = after]
    /\ DriverIdle

MainInitialize ==
    /\ At("init")
    /\ Call_initialize_display
    /\ Goto("brightness")

\* if (!oled_initialize_display(...)) while (1); then oled_adjust_brightness
MainBrightness ==
    /\ At("brightness")
    /\ IF ret = <<TRUE>>
       THEN Call_adjust_brightness(OLED_DEFAULT_BRIGHTNESS) /\ Goto("welcome")
       ELSE Goto("halt") /\ DriverIdle

MainWelcome == At("welcome") /\ CallDisplay("welcome", "setup")

\* barometric_sensor_setup, device_restart, mic_adc_init (which returns
\* true), mic_adc_set_threshold_mv, sleep_ms(2000)
MainSetup == At("setup") /\ Goto("sample") /\ DriverIdle

\* peak = mic_adc_read_peak_mv(2000, 10); db_value = mv_to_db_scaled(peak);
\* if (peak > 2800.0f)
MainSample ==
    /\ At("sample")
    /\ main.peaks < MaxPeaks
    /\ \E peak \in Peaks :
          main' = [main EXCEPT !.peak = peak, !.db = mv_to_db_scaled(peak),
                               !.peaks = @ + 1, !.since = calls,
                               !.shown = <<>>,
                               !.pc = IF IsLoud(peak) THEN "pressure"
                                      ELSE "debounce"]
    /\ DriverIdle

\* if (get_barometric_readings(&pressure) == SENSOR_SUCCESS): the sensor
\* answers SENSOR_SUCCESS with a pressure in tenths of a mbar, or fails
MainPressure ==
    /\ At("pressure")
    /\ \E reading \in {[ok |-> TRUE, pressure |-> 10132],
                        [ok |-> FALSE, pressure |-> 0]} :
          main' = [main EXCEPT !.ok = reading.ok, !.pressure = reading.pressure,
                               !.pc = IF reading.ok THEN "fade_out" ELSE "error"]
    /\ DriverIdle

MainFadeOut == At("fade_out") /\ Call_fade_effect(FALSE) /\ Goto("alert")

MainAlert ==
    /\ At("alert")
    /\ main' = [main EXCEPT !.screen = "alert", !.at = "draw", !.i = 0,
                            !.pc = "blink"]
    /\ DriverIdle

\* for (int i = 0; i < 3; i++): the first call of the body, or the
\* sleep_ms after the loop
MainBlink ==
    /\ At("blink")
    /\ IF main.i < 3
       THEN Call_toggle_color_inversion(TRUE) /\ Goto("refresh_inverted")
       ELSE Goto("fade_in") /\ DriverIdle

MainRefreshInverted ==
    At("refresh_inverted") /\ Call_refresh_screen /\ Goto("normal")

MainNormal ==
    At("normal") /\ Call_toggle_color_inversion(FALSE) /\ Goto("refresh_normal")

MainRefreshNormal ==
    /\ At("refresh_normal")
    /\ Call_refresh_screen
    /\ main' = [main EXCEPT !.i = @ + 1, !.pc = "blink"]

MainFadeIn == At("fade_in") /\ Call_fade_effect(TRUE) /\ Goto("welcome_again")

MainWelcomeAgain == At("welcome_again") /\ CallDisplay("welcome", "debounce")

MainError == At("error") /\ CallDisplay("error", "welcome_after_error")

\* sleep_ms(2000); display_welcome_screen()
MainWelcomeAfterError ==
    At("welcome_after_error") /\ CallDisplay("welcome", "debounce")

\* sleep_ms(50), and back to the head of the loop
MainDebounce == At("debounce") /\ Goto("sample") /\ DriverIdle

\* what the drawing calls of the display function make of the buffer
ScreenImage(screen, mem, db_tenths, pressure_tenths) ==
    CASE screen = "welcome" -> display_welcome_screen(mem)
      [] screen = "alert" -> display_sound_alert(mem, db_tenths, pressure_tenths)
      [] screen = "error" -> display_error_screen(mem)

\* the drawing calls of the display function main is in
DisplayDraw ==
    /\ main.screen # "none"
    /\ main.at = "draw"
    /\ Enter(main.screen, <<>>)
    /\ Drawn(Blank(ScreenImage(main.screen, video_memory, main.db,
                               main.pressure)))
    /\ main' = [main EXCEPT !.at = "refresh"]

\* its oled_refresh_screen
DisplayRefresh ==
    /\ main.screen # "none"
    /\ main.at = "refresh"
    /\ Call_refresh_screen
    /\ main' = [main EXCEPT !.at = "return"]

\* its return, once oled_refresh_screen returned
DisplayReturn ==
    /\ main.screen # "none"
    /\ main.at = "return"
    /\ pc = "idle"
    /\ main' = [main EXCEPT !.shown = Append(@, main.screen),
                            !.screen = "none", !.at = "none"]
    /\ DriverIdle

Aside == UNCHANGED <<origin, sent>>

\* every step but the drawing calls of a display function
NextStatement ==
    \/ MainInitialize /\ Aside
    \/ MainBrightness /\ Aside
    \/ MainWelcome /\ Aside
    \/ MainSetup /\ Aside
    \/ MainSample /\ Aside
    \/ MainPressure /\ Aside
    \/ MainFadeOut /\ Aside
    \/ MainAlert /\ Aside
    \/ MainBlink /\ Aside
    \/ MainRefreshInverted /\ Aside
    \/ MainNormal /\ Aside
    \/ MainRefreshNormal /\ Aside
    \/ MainFadeIn /\ Aside
    \/ MainWelcomeAgain /\ Aside
    \/ MainError /\ Aside
    \/ MainWelcomeAfterError /\ Aside
    \/ MainDebounce /\ Aside
    \/ DisplayRefresh /\ Aside
    \/ DisplayReturn /\ Aside
    \/ TransmitCommand /\ Apart
    \/ TransferVideoData /\ Apart
    \/ FadeIteration /\ Apart
    \/ FadeFinish /\ Apart

NextMain ==
    \/ NextStatement
    \/ DisplayDraw /\ Aside

\* DisplayDraw can run
DrawPending == main.screen # "none" /\ main.at = "draw" /\ pc = "idle"

\* main runs alone and without interruption, and every call it makes
\* returns: a step that can be taken is taken.  For DisplayDraw, which is
\* enabled exactly when DrawPending holds and then ends it, weak fairness is
\* written as what it amounts to, []<>~DrawPending.
SpecMain ==
    /\ InitMain /\ [][NextMain]_vars
    /\ WF_vars(NextStatement)
    /\ []<>(~DrawPending)

\* main is at the head of its loop, about to sample a peak
AtSample == main.pc = "sample" /\ main.screen = "none" /\ pc = "idle"

\* what the last peak caused, seen when main is back at the head of the loop
LoopOutcome ==
    (AtSample /\ main.peaks > 0) =>
        /\ video_memory = display_welcome_screen(video_memory)
        /\ IF main.peak <= 2800 THEN main.shown = <<>>
           ELSE IF main.ok THEN main.shown = <<"alert", "welcome">>
           ELSE main.shown = <<"error", "welcome">>

\* a peak of at most 2800 mV is followed by no call of the driver
QuietPeak ==
    (main.peaks > 0 /\ main.peak <= 2800) =>
        calls = main.since /\ main.shown = <<>>

\* a display function returns after its oled_refresh_screen, which offered
\* the buffer to the bus unless it could not allocate the frame
ShownMeansRefreshed ==
    (main.screen # "none" /\ main.at = "return" /\ pc = "idle") =>
        /\ call.fn = "oled_refresh_screen"
        /\ Len(ret) = 1
        /\ \/ wire = <<>>
           \/ wire = DataFrame(video_memory, OLED_VIDEO_BUFFER_SIZE)
        /\ main.screen = "error" =>
               video_memory = display_error_screen(video_memory)

(* C16: in the main loop, each sampled peak above 2800 mV leads to the     *)
(* alert screen being rendered and refreshed when the pressure read        *)
(* succeeds and to the error screen when it fails, and in both cases the   *)
(* welcome screen is rendered and refreshed again before the next peak is  *)
(* sampled; a peak of at most 2800 mV causes no display operation at all.  *)
C16_MainLoop ==
    /\ [](LoopOutcome /\ QuietPeak /\ ShownMeansRefreshed)
    /\ (main.pc = "pressure") ~> AtSample

C16_Witness ==
    /\ AtSample
    /\ main.peaks = 2
    /\ main.peak = 2801
    /\ ~main.ok
    /\ main.shown = <<"error", "welcome">>

----------------------------------------------------------------------------
(* The line primitive on its own, with endpoints on the screen, off the    *)
(* screen and at the ends of the 8-bit range, in every direction.          *)

LineEndXs == {0, 1, 100, OLED_SCREEN_WIDTH - 1, OLED_SCREEN_WIDTH, 255}
LineEndYs == {0, 1, OLED_SCREEN_HEIGHT - 1, OLED_SCREEN_HEIGHT, 255}

DrawAnyLine ==
    /\ calls = 0
    /\ \E x1 \in LineEndXs, y1 \in LineEndYs, x2 \in LineEndXs,
          y2 \in LineEndYs :
          Call_draw_line_segment(x1, y1, x2, y2, TRUE)

NextLine == DrawAnyLine /\ Apart

SpecLine == InitDraw /\ [][NextLine]_vars

(* C21: oled_draw_line_segment terminates for every pair of endpoints with *)
(* 8-bit coordinates, off-screen ones and all eight octants included, and  *)
(* the last point it plots before returning is the endpoint (x2, y2).      *)
C21_LineEndsAtEndpoint ==
    call.fn = "oled_draw_line_segment" =>
        LET x1 == call.args[1]
            y1 == call.args[2]
            x2 == call.args[3]
            y2 == call.args[4]
            run == oled_draw_line_segment(
                       [mem |-> pre.video_memory, trace |-> <<>>],
                       x1, y1, x2, y2, call.args[5])
        IN  /\ run.done
            /\ run.trace = trace
            /\ run.mem = video_memory
            /\ Len(trace) = Max(Abs(x2 - x1), Abs(y2 - y1)) + 1
            /\ trace[1] = <<x1, y1>>
            /\ trace[Len(trace)] = <<x2, y2>>

C21_Witness ==
    /\ call.fn = "oled_draw_line_segment"
    /\ call.args[1] = 255 /\ call.args[2] = 1
    /\ call.args[3] = 0 /\ call.args[4] = 255
    /\ Len(trace) = 256
    /\ trace[256] = <<0, 255>>

----------------------------------------------------------------------------
(* The bytes of the buffer that the pixel operations and the scroll reach, *)
(* over every column with the rows at the page and range boundaries, and   *)
(* over every row with the columns at the boundaries.                      *)

\* the elements of video_memory that oled_draw_pixel and oled_read_pixel
\* index: none behind the range guard, else buffer_index
PixelIndexes(x_pos, y_pos) ==
    IF OutOfRange(x_pos, y_pos) THEN {} ELSE {BufferIndex(x_pos, y_pos)}

\* the elements of video_memory and of backup_buffer that one step of
\* oled_horizontal_scroll indexes
ScrollIndexes(scroll_left) ==
    UNION {LET src_col == IF scroll_left
                          THEN (col + 1) % OLED_SCREEN_WIDTH
                          ELSE (col - 1 + OLED_SCREEN_WIDTH) % OLED_SCREEN_WIDTH
           IN  {page * OLED_SCREEN_WIDTH + col,
                page * OLED_SCREEN_WIDTH + src_col} :
               page \in 0..(OLED_MEMORY_PAGES - 1),
               col \in 0..(OLED_SCREEN_WIDTH - 1)}

AccessCoordinates ==
    (U8 \X {0, 7, 8, OLED_SCREEN_HEIGHT - 1, OLED_SCREEN_HEIGHT, 127, 128, 255})
    \cup ({0, OLED_SCREEN_WIDTH - 1, OLED_SCREEN_WIDTH, 255} \X U8)

AccessDraw ==
    /\ calls = 0
    /\ \E q \in AccessCoordinates, pixel_on \in BOOLEAN :
          Call_draw_pixel(q[1], q[2], pixel_on)

AccessRead ==
    /\ calls = 0
    /\ \E q \in AccessCoordinates : Call_read_pixel(q[1], q[2])

AccessScroll ==
    /\ calls = 0
    /\ \E scroll_left \in BOOLEAN, distance_pixels \in 1..2 :
          Call_horizontal_scroll(scroll_left, distance_pixels)

NextAccess ==
    \/ AccessDraw /\ Apart
    \/ AccessRead /\ Apart
    \/ AccessScroll /\ Apart
    \/ ScrollIteration /\ Apart
    \/ ScrollReturn /\ Apart
    \/ TransmitCommand /\ Apart
    \/ TransferVideoData /\ Apart

SpecAccess == InitDriver /\ [][NextAccess]_vars

(* C22: in oled_draw_pixel, oled_read_pixel, everything built on them and  *)
(* oled_horizontal_scroll, the byte index used lies in [0, 1024), for all  *)
(* 8-bit argument values: no access falls outside the buffer.              *)
C22_AccessInsideBuffer ==
    /\ DOMAIN video_memory = BufIndex
    /\ call.fn \in {"oled_draw_pixel", "oled_read_pixel"} =>
           /\ PixelIndexes(call.args[1], call.args[2]) \subseteq BufIndex
           /\ {i \in BufIndex : video_memory[i] # pre.video_memory[i]}
                  \subseteq PixelIndexes(call.args[1], call.args[2])
    /\ call.fn = "oled_horizontal_scroll" =>
           ScrollIndexes(call.args[1]) \subseteq BufIndex

C22_Witness ==
    /\ call.fn = "oled_draw_pixel"
    /\ call.args = <<OLED_SCREEN_WIDTH - 1, OLED_SCREEN_HEIGHT - 1, TRUE>>
    /\ PixelIndexes(call.args[1], call.args[2])
           = {OLED_VIDEO_BUFFER_SIZE - 1}
    /\ video_memory[OLED_VIDEO_BUFFER_SIZE - 1] # pre.video_memory[OLED_VIDEO_BUFFER_SIZE - 1]

----------------------------------------------------------------------------
(* The rectangle outline on its own: rectangles on the screen, across its  *)
(* edges and past the 8-bit range, and rectangles without width or height. *)

Call_draw_rectangle_outline(origin_x, origin_y, rect_width, rect_height, border_color) ==
    /\ Enter("oled_draw_rectangle_outline",
             <<origin_x, origin_y, rect_width, rect_height, border_color>>)
    /\ Drawn(oled_draw_rectangle_outline(Fresh, origin_x, origin_y, rect_width,
                                         rect_height, border_color))

DrawAnyOutline ==
    /\ calls = 0
    /\ \E origin_x \in {0, 10, OLED_SCREEN_WIDTH - 8, 200, 255},
          origin_y \in {0, 10, OLED_SCREEN_HEIGHT - 4, 255},
          rect_width \in {0, 1, 8, 100}, rect_height \in {0, 1, 4},
          border_color \in BOOLEAN :
          Call_draw_rectangle_outline(origin_x, origin_y, rect_width,
                                      rect_height, border_color)

NextOutline == DrawAnyOutline /\ Apart

SpecOutline == InitDraw /\ [][NextOutline]_vars

\* the pixels of the screen on the border of [ox, ox+w) x [oy, oy+h)
Border(ox, oy, w, h) ==
    {q \in ((ox..(ox + w - 1)) \X (oy..(oy + h - 1))) \cap Screen :
        \/ q[1] = ox \/ q[1] = ox + w - 1
        \/ q[2] = oy \/ q[2] = oy + h - 1}

(* C24: oled_draw_rectangle_outline(ox, oy, w, h, c) changes only pixels   *)
(* on the border of the rectangle [ox, ox+w) x [oy, oy+h), a subset of     *)
(* what oled_draw_filled_rectangle with the same arguments changes, and    *)
(* gives all of that border the colour c when the rectangle is on screen;  *)
(* it changes no pixel when w = 0 or h = 0.                                *)
C24_OutlineOnBorder ==
    call.fn = "oled_draw_rectangle_outline" =>
        LET ox == call.args[1]
            oy == call.args[2]
            w == call.args[3]
            h == call.args[4]
            c == call.args[5]
            changed == ChangedPixels(pre.video_memory, video_memory)
            filled == oled_draw_filled_rectangle(
                          [mem |-> pre.video_memory, trace |-> <<>>],
                          ox, oy, w, h, c).mem
        IN  /\ changed \subseteq Border(ox, oy, w, h)
            /\ changed \subseteq ChangedPixels(pre.video_memory, filled)
            /\ (ox + w <= OLED_SCREEN_WIDTH /\ oy + h <= OLED_SCREEN_HEIGHT) =>
                  \A q \in Border(ox, oy, w, h) :
                      oled_read_pixel(video_memory, q[1], q[2]) = c
            /\ (w = 0 \/ h = 0) => changed = {}

\* the same for rectangles that have a width and a height and end within
\* the 8-bit range, where no edge coordinate wraps
OutlineOfProperRectangle ==
    (/\ call.fn = "oled_draw_rectangle_outline"
     /\ call.args[3] >= 1 /\ call.args[4] >= 1
     /\ call.args[1] + call.args[3] <= 256
     /\ call.args[2] + call.args[4] <= 256) =>
        LET ox == call.args[1]
            oy == call.args[2]
            w == call.args[3]
            h == call.args[4]
            c == call.args[5]
            changed == ChangedPixels(pre.video_memory, video_memory)
            filled == oled_draw_filled_rectangle(
                          [mem |-> pre.video_memory, trace |-> <<>>],
                          ox, oy, w, h, c).mem
        IN  /\ changed \subseteq Border(ox, oy, w, h)
            /\ changed \subseteq ChangedPixels(pre.video_memory, filled)
            /\ \A q \in Border(ox, oy, w, h) :
                   oled_read_pixel(video_memory, q[1], q[2]) = c

\* an outline without width that changed pixels
OutlineWithoutWidth ==
    /\ call.fn = "oled_draw_rectangle_outline"
    /\ call.args[3] = 0
    /\ call.args[4] = 4
    /\ call.args[1] = 10
    /\ ChangedPixels(pre.video_memory, video_memory) # {}

====
